---------------------------- MODULE Spec2Model ----------------------------
(***************************************************************************)
(* Model of the Agent-Chat bridge of cutesy-agent-router-refactor.py:      *)
(* PTYAgent (reader thread, send_command, get_output, start, stop) and     *)
(* AgentChatBridge (handle_command, handle_message, _output_monitor).      *)
(*                                                                         *)
(* Text.  A text is a sequence of lexemes.  A lexeme is a fixed piece of   *)
(* terminal text with a known character count (LexLen); concatenation is   *)
(* \o, len() is TextLen, str.strip() is Strip, strip_ansi_codes() removes  *)
(* the escape-sequence lexemes.  Regular expressions of the source are     *)
(* evaluated on this lexeme alphabet.                                      *)
(*                                                                         *)
(* Scheduling.  The reader is a thread; it interleaves with everything at  *)
(* the granularity of its lock-protected blocks.  The handlers and the     *)
(* relay loop are coroutines of one event loop; they interleave with each  *)
(* other only at their awaits (send_command, start, stop and get_output    *)
(* contain no await).                                                      *)
(***************************************************************************)
EXTENDS Integers, Sequences, FiniteSets, TLC

\* ------------------------------------------------------------------ bounds
\* deque(maxlen=100) of the source, scaled: the queue capacity of the model.
OUTPUT_QUEUE_MAXLEN == 3
\* Number of chunks the reader threads read in one behaviour (fragment ids).
MaxReads == 4
\* Number of inbound chat updates handled in one behaviour.
MaxUpdates == 2
\* Number of start() calls in one behaviour (one reader thread per start).
MaxStarts == 2

\* --------------------------------------------------------------- constants
\* get_output's soft cap on the combined text.
OUTPUT_CAP == 4000
\* os.read(self.master_fd, 4096): the largest chunk one read returns.
READ_SIZE == 4096

\* -------------------------------------------------------------------- text
ESC == "ESC[0m"
CRLF == "\r\n"

\* Character count of each lexeme.  "T1000", "T2000", "T4096" stand for runs
\* of 1000, 2000 and 4096 characters of plain text; "|", "+" and "L" for the
\* box-drawing glyphs U+2502 (vertical bar), U+256D and U+2570 (corners).
LexLen(l) ==
    CASE l = ESC -> 4
      [] l = " " -> 1
      [] l = "\n" -> 1
      [] l = CRLF -> 2
      [] l = "|" -> 1
      [] l = "+" -> 1
      [] l = "L" -> 1
      [] l = "ok" -> 2
      [] l = "ls" -> 2
      [] l = "[y/N]" -> 5
      [] l = "Continue?" -> 9
      [] l = "Cline CLI" -> 9
      [] l = "cline cli" -> 9
      [] l = "Plan Mode" -> 9
      [] l = "plan mode" -> 9
      [] l = "###" -> 3
      [] l = "/plan or /act" -> 13
      [] l = "T1000" -> 1000
      [] l = "T2000" -> 2000
      [] l = "T4096" -> READ_SIZE

IsSpace(l) == l \in {" ", "\n", CRLF}

\* str.lower()
LowerLex(l) ==
    CASE l = "Cline CLI" -> "cline cli"
      [] l = "Plan Mode" -> "plan mode"
      [] l = "Continue?" -> "continue?"
      [] l = "[y/N]" -> "[y/n]"
      [] OTHER -> l

RECURSIVE TextLen(_)
TextLen(t) == IF t = <<>> THEN 0 ELSE LexLen(Head(t)) + TextLen(Tail(t))

RECURSIVE LStrip(_)
LStrip(t) == IF t # <<>> /\ IsSpace(Head(t)) THEN LStrip(Tail(t)) ELSE t

RECURSIVE RStrip(_)
RStrip(t) ==
    IF t # <<>> /\ IsSpace(t[Len(t)]) THEN RStrip(SubSeq(t, 1, Len(t) - 1)) ELSE t

\* str.strip()
Strip(t) == RStrip(LStrip(t))

\* re.sub(<ANSI escape>, "", text)
strip_ansi_codes(t) == SelectSeq(t, LAMBDA l : l # ESC)

\* any(keyword in text.lower() for keyword in keywords)
ContainsKeyword(t, keywords) == \E i \in DOMAIN t : LowerLex(t[i]) \in keywords


\* ------------------------------------------------------- output processing
\* AgentConfig: the options _process_output reads.  DefaultConfig is the
\* configuration main() builds; GlyphConfig is a configuration whose welcome
\* keyword is itself a short glyph (a visually sparse welcome screen).
DefaultConfig ==
    [welcome_keywords |-> {"cline cli"}, mode_keywords |-> {"plan mode"}]
GlyphConfig ==
    [welcome_keywords |-> {"|"}, mode_keywords |-> {"plan mode"}]

is_welcome_screen(clean, cfg) == ContainsKeyword(clean, cfg.welcome_keywords)

is_mode_switch(clean, cfg) == ContainsKeyword(clean, cfg.mode_keywords)

\* The box-drawing glyphs of the character class of is_box_line and of the
\* list of is_mostly_empty_ui.
BoxGlyphs == {"|", "+", "L"}

\* re.match(r"^[\s<glyphs>]+$", clean_output.strip())
is_box_line(clean) ==
    /\ Strip(clean) # <<>>
    /\ \A i \in DOMAIN Strip(clean) :
          Strip(clean)[i] \in BoxGlyphs \/ IsSpace(Strip(clean)[i])

is_mostly_empty_ui(clean) ==
    /\ (\E g \in BoxGlyphs : Strip(clean) = <<g>>) \/ is_box_line(clean)
    /\ TextLen(Strip(clean)) <= 3

\* The ordered list prompt_patterns.  Each entry is the set of lexemes on which
\* that regular expression (anchored by \s*$, IGNORECASE) matches.
prompt_patterns ==
    << {"[y/N]"}, {"[y/N]"}, {}, {}, {"Continue?"}, {}, {},
       {}, {}, {}, {}, {"[y/N]"}, {}, {} >>

\* A detection that knows the yes/no patterns only.
PromptDetected_yes_no_only(clean) ==
    /\ RStrip(clean) # <<>>
    /\ RStrip(clean)[Len(RStrip(clean))] = "[y/N]"

\* re.search(pattern, clean_output, re.IGNORECASE) for some pattern of the list
PromptDetected(clean) ==
    /\ RStrip(clean) # <<>>
    /\ \E p \in DOMAIN prompt_patterns :
          RStrip(clean)[Len(RStrip(clean))] \in prompt_patterns[p]

\* A filter that forgets the welcome and mode-switch exemption.
IsFiltered_no_exemption(clean, cfg) == is_mostly_empty_ui(clean)

\* The early return of _process_output: the fragment is discarded.
IsFiltered(clean, cfg) ==
    /\ ~is_welcome_screen(clean, cfg)
    /\ ~is_mode_switch(clean, cfg)
    /\ is_mostly_empty_ui(clean)

\* ------------------------------------------------------------ output queue
\* An append that never drops: a deque without maxlen.
DequeAppend_unbounded(q, x) == Append(q, x)

\* deque.append on a deque with maxlen: a full deque drops its oldest item.
DequeAppend(q, x) ==
    IF Len(q) >= OUTPUT_QUEUE_MAXLEN THEN Append(Tail(q), x) ELSE Append(q, x)

\* A push-back that puts the fragment at the end of the deque.
DequeAppendLeft_at_tail(q, x) == DequeAppend(q, x)

\* deque.appendleft on a deque with maxlen: a full deque drops its newest item.
DequeAppendLeft(q, x) ==
    IF Len(q) >= OUTPUT_QUEUE_MAXLEN
    THEN <<x>> \o SubSeq(q, 1, Len(q) - 1)
    ELSE <<x>> \o q

\* Concatenation of the texts of a sequence of fragments.
RECURSIVE Combined(_)
Combined(frags) ==
    IF frags = <<>> THEN <<>> ELSE Head(frags).text \o Combined(Tail(frags))

\* A get_output that returns the over-cap fragment and also pushes it back.
RECURSIVE Drain_returns_pushed(_, _)
Drain_returns_pushed(taken, q) ==
    IF q # <<>> /\ TextLen(Combined(taken)) < OUTPUT_CAP
    THEN LET chunk == Head(q)
             rest == Tail(q)
         IN IF TextLen(Combined(taken) \o chunk.text) > OUTPUT_CAP
            THEN [taken |-> Append(taken, chunk), queue |-> DequeAppendLeft(rest, chunk)]
            ELSE Drain_returns_pushed(Append(taken, chunk), rest)
    ELSE [taken |-> taken, queue |-> q]

\* The while loop of get_output: taken are the fragments added to combined so
\* far, q is the deque.
RECURSIVE Drain(_, _)
Drain(taken, q) ==
    IF q # <<>> /\ TextLen(Combined(taken)) < OUTPUT_CAP
    THEN LET chunk == Head(q)
             rest == Tail(q)
         IN IF TextLen(Combined(taken) \o chunk.text) > OUTPUT_CAP
            THEN [taken |-> taken, queue |-> DequeAppendLeft(rest, chunk)]
            ELSE Drain(Append(taken, chunk), rest)
    ELSE [taken |-> taken, queue |-> q]

NoMessage == [type |-> "none", content |-> <<>>, ids |-> <<>>]

FragIds(frags) == [i \in DOMAIN frags |-> frags[i].id]

\* get_output: the message returned and the queue left behind.
GetOutputResult(q) ==
    IF q = <<>>
    THEN [msg |-> NoMessage, queue |-> q]
    ELSE LET d == Drain(<<>>, q)
         IN [msg |-> IF Strip(Combined(d.taken)) # <<>>
                     THEN [type |-> "agent_output",
                           content |-> Strip(Combined(d.taken)),
                           ids |-> FragIds(d.taken)]
                     ELSE NoMessage,
             queue |-> d.queue]

\* ------------------------------------------------------------------- state
VARIABLES
    config,               \* PTYAgent.config (never mutated after construction)
    is_running_flag,      \* AgentInterface.is_running_flag
    stop_reading,         \* PTYAgent.stop_reading
    waiting_for_input,    \* AgentInterface.waiting_for_input
    input_prompt,         \* PTYAgent.input_prompt (a text)
    last_prompt_time,     \* PTYAgent.last_prompt_time (logical time: read count)
    output_queue,         \* PTYAgent.output_queue: deque of [id, text]
    command_lock,         \* PTYAgent.command_lock: "free" or the caller holding it
    process,              \* PTYAgent.process: "none", "alive" or "exited"
    rd,                   \* the reader threads: thread id -> [pc, raw, out,
                          \* error_count]: raw is the chunk last read, out
                          \* the cleaned fragment waiting to be appended,
                          \* error_count the local variable of _output_reader
    nreads,               \* chunks read so far; a fragment's id is its read number
    pty_in,               \* what the terminal has received: sequence of writes
    delivered,            \* fragment id -> number of Messages that returned it
    sc,                   \* per caller of the agent API: its call in progress
                          \* or its latest call [pc, op, tick, cmd, wrote,
                          \* result, out]
    hs,                   \* the handler coroutines in flight:
                          \* [pc, user, text, replies, calls]
    nupdates,             \* inbound updates handled so far
    output_monitor_task,  \* AgentChatBridge.output_monitor_task: "none" or "task"
    relay,                \* the _output_monitor coroutine [pc, out, recent_messages]
                          \* and tasks, the number of _output_monitor tasks
                          \* created and not yet ended
    limiter,              \* the rate limiter: [now, last], the clock and the time
                          \* of the last accepted free-text message (-1: none)
    ev                    \* what the last step handed to the chat transport: the
                          \* handler invocation it completed, or the relay's send

agentVars == <<config, is_running_flag, stop_reading, waiting_for_input,
               input_prompt, last_prompt_time, output_queue, command_lock,
               process, rd, nreads, pty_in, delivered, sc>>

bridgeVars == <<hs, nupdates, output_monitor_task, relay, limiter>>

vars == <<agentVars, bridgeVars, ev>>

NoEvent == [op |-> "none", h |-> "none", user |-> "none", text |-> <<>>,
            replies |-> <<>>, calls |-> <<>>]

Threads == 1 .. MaxStarts

NoFragment == [id |-> 0, text |-> <<>>]

IdleCall == [pc |-> "idle", op |-> "none", tick |-> 0, cmd |-> <<>>,
             wrote |-> <<>>, result |-> "none", out |-> NoMessage]

\* The record of a call of `op` that caller c begins: tick flips at every call.
NewCall(c, op) == [IdleCall EXCEPT !.op = op, !.tick = 1 - sc[c].tick]

NOT_RUNNING == "Error: Agent not running"
COMMAND_SENT == "Command sent"
WRITE_FAILURE == "Error: write"

\* The state after PTYAgent.__init__, for the callers in C.
AgentInit(C, cfgs) ==
    /\ config \in cfgs
    /\ is_running_flag = FALSE
    /\ stop_reading = FALSE
    /\ waiting_for_input = FALSE
    /\ input_prompt = <<>>
    /\ last_prompt_time = 0
    /\ output_queue = <<>>
    /\ command_lock = "free"
    /\ process = "none"
    /\ rd = [t \in Threads |-> [pc |-> "unborn", raw |-> <<>>, out |-> NoFragment,
                                error_count |-> 0]]
    /\ nreads = 0
    /\ pty_in = <<>>
    /\ delivered = [i \in 1 .. MaxReads |-> 0]
    /\ sc = [c \in C |-> IdleCall]

\* The threshold of consecutive failures in _output_reader (10 in the source),
\* scaled.
MAX_READ_ERRORS == 2

\* ----------------------------------------------------------- reader thread
\* The while test of _output_reader, when it ends the loop.
ReaderExit(t) ==
    /\ rd[t].pc = "loop"
    /\ stop_reading \/ ~is_running_flag
    /\ rd' = [rd EXCEPT ![t].pc = "done"]
    /\ UNCHANGED <<config, is_running_flag, stop_reading, waiting_for_input,
                   input_prompt, last_prompt_time, output_queue, command_lock,
                   process, nreads, pty_in, delivered, sc, bridgeVars>>
    /\ ev' = NoEvent

\* The while test of _output_reader, when it enters the body (select).
ReaderPoll(t) ==
    /\ rd[t].pc = "loop"
    /\ ~stop_reading /\ is_running_flag
    /\ rd' = [rd EXCEPT ![t] = [@ EXCEPT !.pc = "select", !.raw = <<>>,
                                          !.out = NoFragment]]
    /\ UNCHANGED <<config, is_running_flag, stop_reading, waiting_for_input,
                   input_prompt, last_prompt_time, output_queue, command_lock,
                   process, nreads, pty_in, delivered, sc, bridgeVars>>
    /\ ev' = NoEvent

\* select() reports nothing readable: sleep and test the loop condition again.
ReaderIdle(t) ==
    /\ rd[t].pc = "select"
    /\ rd' = [rd EXCEPT ![t].pc = "loop"]
    /\ UNCHANGED <<config, is_running_flag, stop_reading, waiting_for_input,
                   input_prompt, last_prompt_time, output_queue, command_lock,
                   process, nreads, pty_in, delivered, sc, bridgeVars>>
    /\ ev' = NoEvent

\* os.read returns no data: EOF, the loop breaks (the running flag is untouched).
ReaderEOF(t) ==
    /\ rd[t].pc = "select"
    /\ process = "exited"
    /\ rd' = [rd EXCEPT ![t].pc = "done"]
    /\ UNCHANGED <<config, is_running_flag, stop_reading, waiting_for_input,
                   input_prompt, last_prompt_time, output_queue, command_lock,
                   process, nreads, pty_in, delivered, sc, bridgeVars>>
    /\ ev' = NoEvent

\* _process_output up to its last statement: classify, return early when the
\* fragment is decorative, else detect a prompt (under state_lock) and go on to
\* the append.
process_output(t, output) ==
    LET clean_output == strip_ansi_codes(output)
    IN IF IsFiltered(clean_output, config)
       THEN /\ rd' = [rd EXCEPT ![t] = [pc |-> "loop", raw |-> output,
                                        out |-> NoFragment, error_count |-> 0]]
            /\ UNCHANGED <<waiting_for_input, input_prompt, last_prompt_time>>
       ELSE /\ rd' = [rd EXCEPT ![t] = [pc |-> "enqueue", raw |-> output,
                                        out |-> [id |-> nreads + 1,
                                                 text |-> clean_output],
                                        error_count |-> rd[t].error_count]]
            /\ IF PromptDetected(clean_output)
               THEN /\ waiting_for_input' = TRUE
                    /\ input_prompt' = Strip(clean_output)
                    /\ last_prompt_time' = nreads + 1
               ELSE UNCHANGED <<waiting_for_input, input_prompt, last_prompt_time>>

\* select() reports data, os.read returns the chunk `data`, decode, process.
ReaderRead(t, data) ==
    /\ rd[t].pc = "select"
    /\ nreads < MaxReads
    /\ TextLen(data) <= READ_SIZE
    /\ nreads' = nreads + 1
    /\ process_output(t, data)
    /\ UNCHANGED <<config, is_running_flag, stop_reading, output_queue,
                   command_lock, process, pty_in, delivered, sc, bridgeVars>>
    /\ ev' = NoEvent

\* The last statement of _process_output: append under output_queue_lock; back
\* in _output_reader, error_count = 0.
ReaderEnqueue(t) ==
    /\ rd[t].pc = "enqueue"
    /\ output_queue' = DequeAppend(output_queue, rd[t].out)
    /\ rd' = [rd EXCEPT ![t] = [pc |-> "loop", raw |-> <<>>, out |-> NoFragment,
                                error_count |-> 0]]
    /\ UNCHANGED <<config, is_running_flag, stop_reading, waiting_for_input,
                   input_prompt, last_prompt_time, command_lock, process,
                   nreads, pty_in, delivered, sc, bridgeVars>>
    /\ ev' = NoEvent

\* The except branch of _output_reader: count the failure, leave the loop when
\* the count is over the threshold, else sleep and test the loop condition.
ReaderFailure(t) ==
    rd' = [rd EXCEPT ![t] = [pc |-> IF rd[t].error_count + 1 > MAX_READ_ERRORS
                                    THEN "done" ELSE "loop",
                             raw |-> <<>>, out |-> NoFragment,
                             error_count |-> rd[t].error_count + 1]]

\* select() or os.read raises.
ReaderReadError(t) ==
    /\ rd[t].pc = "select"
    /\ ReaderFailure(t)
    /\ UNCHANGED <<config, is_running_flag, stop_reading, waiting_for_input,
                   input_prompt, last_prompt_time, output_queue, command_lock,
                   process, nreads, pty_in, delivered, sc, bridgeVars>>
    /\ ev' = NoEvent

\* os.read returns the chunk `data` and _process_output raises before it has
\* changed anything (in its classification or logging): the chunk is lost, and
\* the exception reaches the same except branch.
ReaderProcessError(t, data) ==
    /\ rd[t].pc = "select"
    /\ nreads < MaxReads
    /\ TextLen(data) <= READ_SIZE
    /\ nreads' = nreads + 1
    /\ ReaderFailure(t)
    /\ UNCHANGED <<config, is_running_flag, stop_reading, waiting_for_input,
                   input_prompt, last_prompt_time, output_queue, command_lock,
                   process, pty_in, delivered, sc, bridgeVars>>
    /\ ev' = NoEvent

\* The child process exits on its own.
ChildExit ==
    /\ process = "alive"
    /\ process' = "exited"
    /\ UNCHANGED <<config, is_running_flag, stop_reading, waiting_for_input,
                   input_prompt, last_prompt_time, output_queue, command_lock,
                   rd, nreads, pty_in, delivered, sc, bridgeVars>>
    /\ ev' = NoEvent

\* --------------------------------------------------------- PTYAgent's API
\* The thread a start() launches: the first thread id not yet used.
NewThread == CHOOSE t \in Threads :
                 /\ rd[t].pc = "unborn"
                 /\ \A u \in Threads : u < t => rd[u].pc # "unborn"

\* A start that sets the running flag before it looks at the child.
start_flag_first(outcome) ==
    /\ \E t \in Threads : rd[t].pc = "unborn"
    /\ IF outcome = "ok"
       THEN /\ process' = "alive"
            /\ is_running_flag' = TRUE
            /\ stop_reading' = FALSE
            /\ rd' = [rd EXCEPT ![NewThread].pc = "loop"]
       ELSE /\ process' = IF outcome = "died" THEN "exited" ELSE process
            /\ is_running_flag' = (outcome = "died")
            /\ UNCHANGED <<stop_reading, rd>>
    /\ UNCHANGED <<config, waiting_for_input, input_prompt, last_prompt_time,
                   output_queue, command_lock, nreads, pty_in, delivered>>

\* PTYAgent.start.  outcome "ok": the child is alive after the grace interval;
\* "died": it exited during the interval; "error": openpty/Popen raised.
\* Returns outcome = "ok".
start(outcome) ==
    /\ \E t \in Threads : rd[t].pc = "unborn"
    /\ IF outcome = "ok"
       THEN /\ process' = "alive"
            /\ is_running_flag' = TRUE
            /\ stop_reading' = FALSE
            /\ rd' = [rd EXCEPT ![NewThread].pc = "loop"]
       ELSE /\ process' = IF outcome = "died" THEN "exited" ELSE process
            /\ UNCHANGED <<is_running_flag, stop_reading, rd>>
    /\ UNCHANGED <<config, waiting_for_input, input_prompt, last_prompt_time,
                   output_queue, command_lock, nreads, pty_in, delivered>>

\* A stop that clears the running flag only after the child was terminated, so
\* that an error while terminating skips it.
stop_flag_after_terminate ==
    /\ stop_reading' = TRUE
    /\ \E how \in {"ended", "error"} :
          /\ process' = IF process = "none" THEN "none"
                        ELSE IF process = "alive" /\ how = "error" THEN "alive"
                        ELSE "exited"
          /\ is_running_flag' = (is_running_flag /\ process = "alive" /\ how = "error")
    /\ UNCHANGED <<config, waiting_for_input, input_prompt, last_prompt_time,
                   output_queue, command_lock, rd, nreads, pty_in, delivered>>

\* PTYAgent.stop.  The child ends by terminate() or, after the grace interval,
\* by kill(); when terminating it raises ("error"), the exception is swallowed
\* and a child that was alive may still be.
stop ==
    /\ stop_reading' = TRUE
    /\ is_running_flag' = FALSE
    /\ \E how \in {"ended", "error"} :
          process' = IF process = "none" THEN "none"
                     ELSE IF process = "alive" /\ how = "error" THEN "alive"
                     ELSE "exited"
    /\ UNCHANGED <<config, waiting_for_input, input_prompt, last_prompt_time,
                   output_queue, command_lock, rd, nreads, pty_in, delivered>>

\* PTYAgent.send_command up to the end of the state_lock block: take
\* command_lock, return NotRunning when the flag is false, else clear the
\* prompt flag and the recorded prompt.
\* A send_command that does not take command_lock before it goes on.
send_command_begin_unlocked(c, command) ==
    /\ sc[c].pc = "idle"
    /\ IF ~is_running_flag
       THEN /\ sc' = [sc EXCEPT ![c] = [NewCall(c, "send_command") EXCEPT
                                            !.cmd = command, !.result = NOT_RUNNING]]
            /\ UNCHANGED <<command_lock, waiting_for_input, input_prompt>>
       ELSE /\ command_lock' = c
            /\ waiting_for_input' = FALSE
            /\ input_prompt' = <<>>
            /\ sc' = [sc EXCEPT ![c] = [NewCall(c, "send_command") EXCEPT
                                            !.pc = "write", !.cmd = command]]
    /\ UNCHANGED <<config, is_running_flag, stop_reading, last_prompt_time,
                   output_queue, process, rd, nreads, pty_in, delivered>>

\* A send_command that clears the prompt before it tests is_running_flag.
send_command_begin_clears_first(c, command) ==
    /\ sc[c].pc = "idle"
    /\ command_lock = "free"
    /\ waiting_for_input' = FALSE
    /\ input_prompt' = <<>>
    /\ IF ~is_running_flag
       THEN /\ sc' = [sc EXCEPT ![c] = [NewCall(c, "send_command") EXCEPT
                                            !.cmd = command, !.result = NOT_RUNNING]]
            /\ UNCHANGED command_lock
       ELSE /\ command_lock' = c
            /\ sc' = [sc EXCEPT ![c] = [NewCall(c, "send_command") EXCEPT
                                            !.pc = "write", !.cmd = command]]
    /\ UNCHANGED <<config, is_running_flag, stop_reading, last_prompt_time,
                   output_queue, process, rd, nreads, pty_in, delivered>>

\* A send_command that resets the flag and keeps the recorded prompt.
send_command_begin_keeps_prompt(c, command) ==
    /\ sc[c].pc = "idle"
    /\ command_lock = "free"
    /\ IF ~is_running_flag
       THEN /\ sc' = [sc EXCEPT ![c] = [NewCall(c, "send_command") EXCEPT
                                            !.cmd = command, !.result = NOT_RUNNING]]
            /\ UNCHANGED <<command_lock, waiting_for_input, input_prompt>>
       ELSE /\ command_lock' = c
            /\ waiting_for_input' = FALSE
            /\ UNCHANGED input_prompt
            /\ sc' = [sc EXCEPT ![c] = [NewCall(c, "send_command") EXCEPT
                                            !.pc = "write", !.cmd = command]]
    /\ UNCHANGED <<config, is_running_flag, stop_reading, last_prompt_time,
                   output_queue, process, rd, nreads, pty_in, delivered>>

send_command_begin(c, command) ==
    /\ sc[c].pc = "idle"
    /\ command_lock = "free"
    /\ IF ~is_running_flag
       THEN /\ sc' = [sc EXCEPT ![c] = [NewCall(c, "send_command") EXCEPT
                                            !.cmd = command, !.result = NOT_RUNNING]]
            /\ UNCHANGED <<command_lock, waiting_for_input, input_prompt>>
       ELSE /\ command_lock' = c
            /\ waiting_for_input' = FALSE
            /\ input_prompt' = <<>>
            /\ sc' = [sc EXCEPT ![c] = [NewCall(c, "send_command") EXCEPT
                                            !.pc = "write", !.cmd = command]]
    /\ UNCHANGED <<config, is_running_flag, stop_reading, last_prompt_time,
                   output_queue, process, rd, nreads, pty_in, delivered>>

\* A send_command whose write leaves out the line terminator.
send_command_write_bare(c) ==
    /\ sc[c].pc = "write"
    /\ pty_in' = Append(pty_in, sc[c].cmd)
    /\ sc' = [sc EXCEPT ![c] = [@ EXCEPT !.pc = "sleep", !.wrote = Append(@, sc[c].cmd)]]
    /\ UNCHANGED <<config, is_running_flag, stop_reading, waiting_for_input,
                   input_prompt, last_prompt_time, output_queue, command_lock,
                   process, rd, nreads, delivered>>

\* os.write(self.master_fd, f"{command}\r\n".encode()) succeeds; the caller then
\* sleeps 0.2 s, still holding command_lock.
send_command_write(c) ==
    /\ sc[c].pc = "write"
    /\ pty_in' = Append(pty_in, sc[c].cmd \o <<CRLF>>)
    /\ sc' = [sc EXCEPT ![c] = [@ EXCEPT !.pc = "sleep",
                                         !.wrote = Append(@, sc[c].cmd \o <<CRLF>>)]]
    /\ UNCHANGED <<config, is_running_flag, stop_reading, waiting_for_input,
                   input_prompt, last_prompt_time, output_queue, command_lock,
                   process, rd, nreads, delivered>>

\* A send_command that stops the agent when the write raises.
send_command_fail_stops(c) ==
    /\ sc[c].pc = "write"
    /\ command_lock' = "free"
    /\ is_running_flag' = FALSE
    /\ stop_reading' = TRUE
    /\ sc' = [sc EXCEPT ![c] = [@ EXCEPT !.pc = "idle", !.result = WRITE_FAILURE]]
    /\ UNCHANGED <<config, waiting_for_input, input_prompt, last_prompt_time,
                   output_queue, process, rd, nreads, pty_in, delivered>>

\* os.write raises: the except block returns "Error: ..." and the lock is released.
send_command_fail(c) ==
    /\ sc[c].pc = "write"
    /\ command_lock' = "free"
    /\ sc' = [sc EXCEPT ![c] = [@ EXCEPT !.pc = "idle", !.result = WRITE_FAILURE]]
    /\ UNCHANGED <<config, is_running_flag, stop_reading, waiting_for_input,
                   input_prompt, last_prompt_time, output_queue, process, rd,
                   nreads, pty_in, delivered>>

\* return "Command sent": the with block ends and releases command_lock.
send_command_return(c) ==
    /\ sc[c].pc = "sleep"
    /\ command_lock' = "free"
    /\ sc' = [sc EXCEPT ![c] = [@ EXCEPT !.pc = "idle", !.result = COMMAND_SENT]]
    /\ UNCHANGED <<config, is_running_flag, stop_reading, waiting_for_input,
                   input_prompt, last_prompt_time, output_queue, process, rd,
                   nreads, pty_in, delivered>>

\* Number of occurrences of x in the sequence f.
Count(f, x) == Cardinality({i \in DOMAIN f : f[i] = x})

\* PTYAgent.get_output (one block under output_queue_lock).  Its return value is
\* GetOutputResult(output_queue).msg.
get_output ==
    /\ output_queue' = GetOutputResult(output_queue).queue
    /\ delivered' = [i \in DOMAIN delivered |->
                        delivered[i] + Count(GetOutputResult(output_queue).msg.ids, i)]
    /\ UNCHANGED <<config, is_running_flag, stop_reading, waiting_for_input,
                   input_prompt, last_prompt_time, command_lock, process, rd,
                   nreads, pty_in>>

\* ------------------------------------------------------------------ bridge
Handlers == {"h1", "h2"}

IdleHandler == [pc |-> "idle", user |-> "none", text |-> <<>>, replies |-> <<>>,
                calls |-> <<>>]

\* The state after AgentChatBridge.__init__.
BridgeInit ==
    /\ hs = [h \in Handlers |-> IdleHandler]
    /\ nupdates = 0
    /\ output_monitor_task = "none"
    /\ relay = [pc |-> "none", out |-> NoMessage, recent_messages |-> <<>>,
                tasks |-> 0]
    /\ limiter = [now |-> 0, last |-> -1]
    /\ ev = NoEvent

\* ------------------------------------- the agent driven through its own API
\* One control thread calls the methods of PTYAgent directly, one call at a
\* time and in any order, while the reader thread runs.  It keeps to the
\* lifecycle of the API: start() is called only on a stopped instance that
\* has never run.
Clients == {"ctl"}

\* Number of terminal writes in one behaviour of SpecAgent.
MaxCommands == 2

CallStart(c, outcome) ==
    /\ sc[c].pc = "idle"
    /\ ~is_running_flag
    /\ \A t \in Threads : rd[t].pc = "unborn"
    /\ start(outcome)
    /\ sc' = [sc EXCEPT ![c] = [NewCall(c, "start") EXCEPT
                     !.result = IF outcome = "ok" THEN "True" ELSE "False"]]
    /\ UNCHANGED bridgeVars
    /\ ev' = NoEvent

CallStop(c) ==
    /\ sc[c].pc = "idle"
    /\ stop
    /\ sc' = [sc EXCEPT ![c] = NewCall(c, "stop")]
    /\ UNCHANGED bridgeVars
    /\ ev' = NoEvent

CallSendCommand(c, command) ==
    /\ Len(pty_in) < MaxCommands
    /\ send_command_begin(c, command)
    /\ UNCHANGED bridgeVars
    /\ ev' = NoEvent

SendWrite(c) == send_command_write(c) /\ UNCHANGED bridgeVars /\ ev' = NoEvent

SendFail(c) == send_command_fail(c) /\ UNCHANGED bridgeVars /\ ev' = NoEvent

SendReturn(c) == send_command_return(c) /\ UNCHANGED bridgeVars /\ ev' = NoEvent

CallGetOutput(c) ==
    /\ sc[c].pc = "idle"
    /\ get_output
    /\ sc' = [sc EXCEPT ![c] = [NewCall(c, "get_output") EXCEPT
                     !.out = GetOutputResult(output_queue).msg]]
    /\ UNCHANGED bridgeVars
    /\ ev' = NoEvent

\* Chunks the child writes and command texts the control thread sends.
AgentChunks == { <<ESC, "ok">>, <<"Continue?", " ">> }
AgentCommands == { <<"ls">>, <<"ok", "\n">> }

InitAgent == AgentInit(Clients, {DefaultConfig}) /\ BridgeInit

NextAgent ==
    \/ \E t \in Threads : ReaderExit(t)
    \/ \E t \in Threads : ReaderPoll(t)
    \/ \E t \in Threads : ReaderIdle(t)
    \/ \E t \in Threads : ReaderEOF(t)
    \/ \E t \in Threads : \E data \in AgentChunks : ReaderRead(t, data)
    \/ \E t \in Threads : ReaderEnqueue(t)
    \/ ChildExit
    \/ \E c \in Clients : \E outcome \in {"ok", "died", "error"} : CallStart(c, outcome)
    \/ \E c \in Clients : CallStop(c)
    \/ \E c \in Clients : \E command \in AgentCommands : CallSendCommand(c, command)
    \/ \E c \in Clients : SendWrite(c)
    \/ \E c \in Clients : SendFail(c)
    \/ \E c \in Clients : SendReturn(c)
    \/ \E c \in Clients : CallGetOutput(c)

SpecAgent == InitAgent /\ [][NextAgent]_vars

\* --------------------------------- the agent's output path, through its API
\* The control thread starts the agent and polls get_output while the reader
\* thread reads the chunks of `chunks`.
NextOutput(chunks) ==
    \/ \E t \in Threads : ReaderExit(t)
    \/ \E t \in Threads : ReaderPoll(t)
    \/ \E t \in Threads : ReaderIdle(t)
    \/ \E t \in Threads : ReaderEOF(t)
    \/ \E t \in Threads : \E data \in chunks : ReaderRead(t, data)
    \/ \E t \in Threads : ReaderEnqueue(t)
    \/ ChildExit
    \/ \E c \in Clients : \E outcome \in {"ok", "died", "error"} : CallStart(c, outcome)
    \/ \E c \in Clients : CallStop(c)
    \/ \E c \in Clients : CallGetOutput(c)

\* Chunks for the classification of _process_output: a decorative glyph with
\* an escape sequence, a box line longer than three characters, a prompt, and
\* a blank chunk.
ShapingChunks ==
    { <<ESC, "|", " ">>, <<"|", "|", "|", "|">>, <<"ok", "[y/N]", " ">>,
      <<" ", "\n">> }

InitShaping == AgentInit(Clients, {DefaultConfig, GlyphConfig}) /\ BridgeInit

NextShaping == NextOutput(ShapingChunks)

SpecShaping == InitShaping /\ [][NextShaping]_vars

\* Chunks for the aggregation of get_output: fragments of 1000, 2000 and 4096
\* characters, and a blank one.
DrainChunks == { <<"T1000">>, <<"T2000">>, <<"T4096">>, <<" ">> }

InitDrain == AgentInit(Clients, {DefaultConfig}) /\ BridgeInit

NextDrain == NextOutput(DrainChunks)

SpecDrain == InitDrain /\ [][NextDrain]_vars

\* The control thread keeps calling get_output.
SpecDrainFair == SpecDrain /\ WF_vars(\E c \in Clients : CallGetOutput(c))

\* ----------------------------------------------------------- noise filter
\* The options _output_monitor reads from the agent's config (main()).
ui_indicators == {"+", "L", "|", "/plan or /act"}
response_markers == {"###"}
repetitive_ui_markers == {"/plan or /act"}

\* deque(maxlen=10) of the source, scaled: the size of the dedup window.
RECENT_MAXLEN == 2

\* text.split("\n"), each line stripped: "\n" and "\r\n" end a line (the "\r"
\* left at the end of a line is whitespace and is stripped).
RECURSIVE SplitLines(_, _)
SplitLines(t, cur) ==
    IF t = <<>> THEN <<Strip(cur)>>
    ELSE IF Head(t) \in {"\n", CRLF}
         THEN <<Strip(cur)>> \o SplitLines(Tail(t), <<>>)
         ELSE SplitLines(Tail(t), Append(cur, Head(t)))

\* list(dict.fromkeys(lines)): the first occurrence of each line, in order.
RECURSIVE DedupLines(_, _)
DedupLines(lines, seen) ==
    IF lines = <<>> THEN <<>>
    ELSE IF Head(lines) \in seen
         THEN DedupLines(Tail(lines), seen)
         ELSE <<Head(lines)>> \o DedupLines(Tail(lines), seen \cup {Head(lines)})

\* "\n".join(lines)
RECURSIVE JoinLines(_)
JoinLines(lines) ==
    IF lines = <<>> THEN <<>>
    ELSE IF Len(lines) = 1 THEN Head(lines)
         ELSE Head(lines) \o <<"\n">> \o JoinLines(Tail(lines))

\* The first four statements of the relay's filter: the block it works on.
CleanBlock(content) ==
    JoinLines(DedupLines(SplitLines(strip_ansi_codes(content), <<>>), {}))

\* " ".join(text.split()): every run of whitespace becomes one space, none at
\* the ends.
RECURSIVE Collapse(_)
Collapse(t) ==
    IF t = <<>> THEN <<>>
    ELSE IF IsSpace(Head(t))
         THEN <<" ">> \o Collapse(LStrip(t))
         ELSE <<Head(t)>> \o Collapse(Tail(t))

Normalize(t) == Collapse(Strip(t))

\* hash(normalized): the fingerprint of a block (hash collisions aside, equal
\* exactly when the normalized texts are equal).
Fingerprint(t) == Normalize(t)

\* Spaces inside a lexeme.
LexSpaces(l) ==
    CASE l \in {"Cline CLI", "cline cli", "Plan Mode", "plan mode"} -> 1
      [] l = "/plan or /act" -> 2
      [] OTHER -> 0

\* len(text.split())
RECURSIVE WordCount(_)
WordCount(t) ==
    IF t = <<>> THEN 0
    ELSE IF IsSpace(Head(t)) THEN WordCount(Tail(t))
         ELSE LexSpaces(Head(t))
              + (IF Len(t) > 1 /\ ~IsSpace(t[2]) THEN 0 ELSE 1)
              + WordCount(Tail(t))

Max(a, b) == IF a >= b THEN a ELSE b

ui_score(t) == Cardinality({ind \in ui_indicators : \E i \in DOMAIN t : t[i] = ind})

is_agent_response(t) == \E i \in DOMAIN t : t[i] \in response_markers

is_repetitive_ui(t) ==
    ui_score(t) >= 1 /\ \E i \in DOMAIN t : t[i] \in repetitive_ui_markers

\* ui_ratio > 0.3 or (ui_score >= 2 and len(clean_output.strip()) <= 100)
is_mostly_ui(t) ==
    \/ 10 * ui_score(t) > 3 * Max(1, WordCount(t))
    \/ ui_score(t) >= 2 /\ TextLen(Strip(t)) <= 100

\* A filter that does not look at the dedup window.
should_filter_no_window(t, recent) ==
    \/ is_repetitive_ui(t) /\ ~is_agent_response(t) /\ is_mostly_ui(t)
    \/ ui_score(t) >= 3 /\ TextLen(Strip(t)) <= 50

should_filter(t, recent) ==
    \/ \E k \in DOMAIN recent : recent[k] = Fingerprint(t)
    \/ is_repetitive_ui(t) /\ ~is_agent_response(t) /\ is_mostly_ui(t)
    \/ ui_score(t) >= 3 /\ TextLen(Strip(t)) <= 50

\* recent_messages.append on deque(maxlen): a full window drops its oldest.
RecentAppend(recent, fp) ==
    IF Len(recent) >= RECENT_MAXLEN THEN Append(Tail(recent), fp)
    ELSE Append(recent, fp)

\* --------------------------------------------------------- AgentChatBridge
\* AgentChatBridge.user_id and a sender who is somebody else.
AUTHORIZED_USER == "owner"
Users == {"owner", "stranger"}

Reply(kind, text) == [kind |-> kind, text |-> text]

\* The event loop runs one coroutine at a time: nothing else of the loop runs
\* while a handler is inside the synchronous send_command.
LoopFree == \A h \in Handlers : hs[h].pc # "sending"

\* A new update is dispatched to the idle handler coroutine h. The coroutines
\* are interchangeable, so the update takes the first one that is free.
Dispatchable(h) ==
    /\ hs[h].pc = "idle"
    /\ h = "h2" => hs["h1"].pc # "idle"
    /\ LoopFree

\* The handler invocation that a step completes, as the transport saw it.
Completed(op, h, user, text, replies, calls) ==
    [op |-> op, h |-> h, user |-> user, text |-> text, replies |-> replies,
     calls |-> calls]

\* A handler without the sender check: a stranger's "/stop" stops the agent.
handle_unchecked(h, user, text) ==
    /\ Dispatchable(h)
    /\ user # AUTHORIZED_USER
    /\ nupdates' = nupdates + 1
    /\ IF text = <<"/stop">>
       THEN /\ stop
            /\ UNCHANGED sc
            /\ ev' = Completed("handler", h, user, text, <<Reply("stopped", <<>>)>>,
                               <<"stop">>)
       ELSE /\ ev' = Completed("handler", h, user, text,
                               <<Reply("unauthorized", <<>>)>>, <<>>)
            /\ UNCHANGED agentVars
    /\ UNCHANGED <<hs, output_monitor_task, relay>>
    /\ UNCHANGED limiter

\* handle_command and handle_message for a sender who is not authorized.
handle_unauthorized(h, user, text) ==
    /\ Dispatchable(h)
    /\ user # AUTHORIZED_USER
    /\ nupdates' = nupdates + 1
    /\ ev' = Completed("handler", h, user, text, <<Reply("unauthorized", <<>>)>>, <<>>)
    /\ UNCHANGED <<agentVars, hs, output_monitor_task, relay>>
    /\ UNCHANGED limiter

\* A "/start" that does not look at is_running() first.
handle_start_again(h, outcome) ==
    /\ Dispatchable(h)
    /\ nupdates' = nupdates + 1
    /\ start(outcome)
    /\ UNCHANGED sc
    /\ IF outcome = "ok"
       THEN /\ hs' = [hs EXCEPT ![h] =
                         [pc |-> "started", user |-> AUTHORIZED_USER,
                          text |-> <<"/start">>,
                          replies |-> <<Reply("started", <<>>)>>,
                          calls |-> <<"start">>]]
            /\ ev' = NoEvent
       ELSE /\ ev' = Completed("handler", h, AUTHORIZED_USER, <<"/start">>,
                               <<Reply("start_failed", <<>>)>>, <<"start">>)
            /\ UNCHANGED hs
    /\ UNCHANGED <<output_monitor_task, relay>>
    /\ UNCHANGED limiter

\* handle_command, cmd == "/start", up to the await of reply_text.
handle_start(h, outcome) ==
    /\ Dispatchable(h)
    /\ nupdates' = nupdates + 1
    /\ IF is_running_flag
       THEN /\ ev' = Completed("handler", h, AUTHORIZED_USER, <<"/start">>,
                               <<Reply("already_running", <<>>)>>, <<>>)
            /\ UNCHANGED <<agentVars, hs>>
       ELSE /\ start(outcome)
            /\ UNCHANGED sc
            /\ IF outcome = "ok"
               THEN /\ hs' = [hs EXCEPT ![h] =
                                 [pc |-> "started", user |-> AUTHORIZED_USER,
                                  text |-> <<"/start">>,
                                  replies |-> <<Reply("started", <<>>)>>,
                                  calls |-> <<"start">>]]
                    /\ ev' = NoEvent
               ELSE /\ ev' = Completed("handler", h, AUTHORIZED_USER, <<"/start">>,
                                       <<Reply("start_failed", <<>>)>>, <<"start">>)
                    /\ UNCHANGED hs
    /\ UNCHANGED <<output_monitor_task, relay>>
    /\ UNCHANGED limiter

\* A "/start" that creates a relay task whether or not one was created before.
handle_start_monitor_unguarded(h) ==
    /\ hs[h].pc = "started"
    /\ LoopFree
    /\ hs' = [hs EXCEPT ![h] = IdleHandler]
    /\ ev' = Completed("handler", h, hs[h].user, hs[h].text, hs[h].replies, hs[h].calls)
    /\ output_monitor_task' = "task"
    /\ relay' = [relay EXCEPT !.pc = IF @ = "send" THEN "send" ELSE "loop",
                              !.tasks = @ + 1]
    /\ UNCHANGED <<agentVars, nupdates>>
    /\ UNCHANGED limiter

\* handle_command, cmd == "/start", after the await: create the relay task
\* unless output_monitor_task is already set.
handle_start_monitor(h) ==
    /\ hs[h].pc = "started"
    /\ LoopFree
    /\ hs' = [hs EXCEPT ![h] = IdleHandler]
    /\ ev' = Completed("handler", h, hs[h].user, hs[h].text, hs[h].replies, hs[h].calls)
    /\ IF output_monitor_task = "none"
       THEN /\ output_monitor_task' = "task"
            /\ relay' = [relay EXCEPT !.pc = "loop", !.tasks = @ + 1]
       ELSE UNCHANGED <<output_monitor_task, relay>>
    /\ UNCHANGED <<agentVars, nupdates>>
    /\ UNCHANGED limiter

\* handle_command, cmd == "/stop"
handle_stop(h) ==
    /\ Dispatchable(h)
    /\ nupdates' = nupdates + 1
    /\ stop
    /\ UNCHANGED sc
    /\ ev' = Completed("handler", h, AUTHORIZED_USER, <<"/stop">>,
                       <<Reply("stopped", <<>>)>>, <<"stop">>)
    /\ UNCHANGED <<hs, output_monitor_task, relay>>
    /\ UNCHANGED limiter

\* handle_command, cmd == "/status"
handle_status(h) ==
    /\ Dispatchable(h)
    /\ nupdates' = nupdates + 1
    /\ ev' = Completed("handler", h, AUTHORIZED_USER, <<"/status">>,
                       <<Reply(IF is_running_flag THEN "status_running"
                                                  ELSE "status_stopped",
                               IF waiting_for_input THEN <<"Waiting for input">>
                                                    ELSE <<>>)>>, <<>>)
    /\ UNCHANGED <<agentVars, hs, output_monitor_task, relay>>
    /\ UNCHANGED limiter

\* A handle_message that does not look at is_running() before send_command.
handle_message_no_running_check(h, text) ==
    /\ Dispatchable(h)
    /\ nupdates' = nupdates + 1
    /\ send_command_begin(h, Strip(text))
    /\ ev' = NoEvent
    /\ hs' = [hs EXCEPT ![h] =
                 [pc |-> IF sc'[h].pc = "write" THEN "sending" ELSE "wait",
                  user |-> AUTHORIZED_USER,
                  text |-> text,
                  replies |-> IF sc'[h].pc = "write" THEN <<>>
                              ELSE <<Reply("command_sent", Strip(text))>>,
                  calls |-> <<"send_command">>]]
    /\ UNCHANGED <<output_monitor_task, relay>>
    /\ UNCHANGED limiter

\* handle_message for the authorized sender, up to the os.write inside
\* send_command (which it calls without an await in between).
handle_message(h, text) ==
    /\ Dispatchable(h)
    /\ nupdates' = nupdates + 1
    /\ IF ~is_running_flag
       THEN /\ ev' = Completed("handler", h, AUTHORIZED_USER, text,
                               <<Reply("not_running", <<>>)>>, <<>>)
            /\ UNCHANGED <<agentVars, hs>>
       ELSE /\ send_command_begin(h, Strip(text))
            /\ ev' = NoEvent
            /\ hs' = [hs EXCEPT ![h] =
                         [pc |-> IF sc'[h].pc = "write" THEN "sending" ELSE "wait",
                          user |-> AUTHORIZED_USER,
                          text |-> text,
                          replies |-> IF sc'[h].pc = "write" THEN <<>>
                                      ELSE <<Reply("command_sent", Strip(text))>>,
                          calls |-> <<"send_command">>]]
    /\ UNCHANGED <<output_monitor_task, relay>>
    /\ UNCHANGED limiter

\* handle_message: the os.write of its send_command succeeds.
handle_message_write(h) ==
    /\ hs[h].pc = "sending"
    /\ send_command_write(h)
    /\ ev' = NoEvent
    /\ UNCHANGED bridgeVars

\* handle_message: send_command returns (result: "Command sent", or the error
\* of a failed write); the return value is not looked at, the acknowledgment is
\* sent and the handler sleeps 2 s.
handle_message_sent(h) ==
    /\ hs[h].pc = "sending"
    /\ send_command_return(h) \/ send_command_fail(h)
    /\ hs' = [hs EXCEPT ![h] = [@ EXCEPT
                  !.pc = "wait",
                  !.replies = Append(@, Reply("command_sent", Strip(hs[h].text)))]]
    /\ ev' = NoEvent
    /\ UNCHANGED <<nupdates, output_monitor_task, relay>>
    /\ UNCHANGED limiter

\* A handle_message that delivers the agent's output ahead of the
\* acknowledgment.
handle_message_collect_output_first(h) ==
    /\ hs[h].pc = "wait"
    /\ LoopFree
    /\ get_output
    /\ sc' = [sc EXCEPT ![h] = IdleCall]
    /\ hs' = [hs EXCEPT ![h] = IdleHandler]
    /\ ev' = Completed("handler", h, hs[h].user, hs[h].text,
                       IF GetOutputResult(output_queue).msg.type = "none"
                       THEN hs[h].replies
                       ELSE <<Reply("output", GetOutputResult(output_queue).msg.content)>>
                            \o hs[h].replies,
                       Append(hs[h].calls, "get_output"))
    /\ UNCHANGED <<nupdates, output_monitor_task, relay>>
    /\ UNCHANGED limiter

\* handle_message after the sleep: one get_output, replied when there is one.
handle_message_collect(h) ==
    /\ hs[h].pc = "wait"
    /\ LoopFree
    /\ get_output
    /\ sc' = [sc EXCEPT ![h] = IdleCall]
    /\ hs' = [hs EXCEPT ![h] = IdleHandler]
    /\ ev' = Completed("handler", h, hs[h].user, hs[h].text,
                       IF GetOutputResult(output_queue).msg.type = "none"
                       THEN hs[h].replies
                       ELSE Append(hs[h].replies,
                                   Reply("output", GetOutputResult(output_queue).msg.content)),
                       Append(hs[h].calls, "get_output"))
    /\ UNCHANGED <<nupdates, output_monitor_task, relay>>
    /\ UNCHANGED limiter

\* A relay loop that ends only when it is stopped and nothing is left to relay.
relay_exit_when_drained ==
    /\ relay.pc = "loop"
    /\ LoopFree
    /\ ~is_running_flag
    /\ output_queue = <<>>
    /\ relay' = [relay EXCEPT !.pc = "done", !.tasks = @ - 1]
    /\ ev' = NoEvent
    /\ UNCHANGED <<agentVars, hs, nupdates, output_monitor_task>>
    /\ UNCHANGED limiter

\* _output_monitor: the while test fails, the task ends.
relay_exit ==
    /\ relay.pc = "loop"
    /\ LoopFree
    /\ ~is_running_flag
    /\ relay' = [relay EXCEPT !.pc = "done", !.tasks = @ - 1]
    /\ ev' = NoEvent
    /\ UNCHANGED <<agentVars, hs, nupdates, output_monitor_task>>
    /\ UNCHANGED limiter

\* A relay that records no fingerprint for a block it suppresses.
relay_iterate_suppress_unrecorded ==
    /\ relay.pc = "loop"
    /\ LoopFree
    /\ is_running_flag
    /\ get_output
    /\ UNCHANGED sc
    /\ LET output == GetOutputResult(output_queue).msg
           clean_output == CleanBlock(output.content)
       IN IF output.type = "none"
          THEN UNCHANGED relay
          ELSE IF should_filter(clean_output, relay.recent_messages)
               THEN UNCHANGED relay
               ELSE relay' = [relay EXCEPT !.pc = "send",
                                           !.out = [output EXCEPT !.content = clean_output]]
    /\ ev' = NoEvent
    /\ UNCHANGED <<hs, nupdates, output_monitor_task>>
    /\ UNCHANGED limiter

\* _output_monitor: one iteration up to its await: get_output, the filter, and
\* either the sleep (nothing to send, or suppressed) or the send.
relay_iterate ==
    /\ relay.pc = "loop"
    /\ LoopFree
    /\ is_running_flag
    /\ get_output
    /\ UNCHANGED sc
    /\ LET output == GetOutputResult(output_queue).msg
           clean_output == CleanBlock(output.content)
       IN IF output.type = "none"
          THEN UNCHANGED relay
          ELSE IF should_filter(clean_output, relay.recent_messages)
               THEN relay' = [relay EXCEPT !.recent_messages =
                                 IF is_repetitive_ui(clean_output)
                                 THEN RecentAppend(@, Fingerprint(clean_output))
                                 ELSE @]
               ELSE relay' = [relay EXCEPT !.pc = "send",
                                           !.out = [output EXCEPT !.content = clean_output]]
    /\ ev' = NoEvent
    /\ UNCHANGED <<hs, nupdates, output_monitor_task>>
    /\ UNCHANGED limiter

\* A relay whose task dies of the exception the transport raised.
relay_send_raising(ok) ==
    /\ relay.pc = "send"
    /\ LoopFree
    /\ ev' = [NoEvent EXCEPT !.op = IF ok THEN "relay_sent" ELSE "relay_send_failed",
                             !.text = relay.out.content]
    /\ relay' = IF ok
                THEN [pc |-> "loop", out |-> NoMessage,
                      recent_messages |-> RecentAppend(relay.recent_messages,
                                                       Fingerprint(relay.out.content)),
                      tasks |-> relay.tasks]
                ELSE [relay EXCEPT !.pc = "done", !.out = NoMessage,
                                   !.tasks = @ - 1]
    /\ UNCHANGED <<agentVars, hs, nupdates, output_monitor_task>>
    /\ UNCHANGED limiter

\* A relay that records the fingerprint of a block only when it was delivered.
relay_send_records_delivered(ok) ==
    /\ relay.pc = "send"
    /\ LoopFree
    /\ ev' = [NoEvent EXCEPT !.op = IF ok THEN "relay_sent" ELSE "relay_send_failed",
                             !.text = relay.out.content]
    /\ relay' = [relay EXCEPT !.pc = "loop", !.out = NoMessage,
                              !.recent_messages =
                                  IF ok THEN RecentAppend(@, Fingerprint(relay.out.content))
                                  ELSE @]
    /\ UNCHANGED <<agentVars, hs, nupdates, output_monitor_task>>
    /\ UNCHANGED limiter

\* _output_monitor: send_message (delivered, or the transport raises and
\* send_message swallows it), then the fingerprint is recorded and the loop
\* sleeps.
relay_send(ok) ==
    /\ relay.pc = "send"
    /\ LoopFree
    /\ ev' = [NoEvent EXCEPT !.op = IF ok THEN "relay_sent" ELSE "relay_send_failed",
                             !.text = relay.out.content]
    /\ relay' = [pc |-> "loop", out |-> NoMessage,
                 recent_messages |-> RecentAppend(relay.recent_messages,
                                                  Fingerprint(relay.out.content)),
                 tasks |-> relay.tasks]
    /\ UNCHANGED <<agentVars, hs, nupdates, output_monitor_task>>
    /\ UNCHANGED limiter

\* Chunks the child writes and message texts the users send.
BridgeChunks == { <<"ok", "\n">>, <<"T2000">>, <<"T2000", "T1000">> }
BridgeTexts == { <<" ", "ls", " ">> }
\* Reads of the terminal in one behaviour of the bridge.
BridgeReads == 2
BridgeRead(t, data) == nreads < BridgeReads /\ ReaderRead(t, data)

\* The updates of one behaviour of the bridge, by handler.
BridgeUnauthorized(h, user, text) ==
    nupdates < MaxUpdates /\ handle_unauthorized(h, user, text)
BridgeStart(h, outcome) == nupdates < MaxUpdates /\ handle_start(h, outcome)
BridgeStop(h) == nupdates < MaxUpdates /\ handle_stop(h)
BridgeStatus(h) == nupdates < MaxUpdates /\ handle_status(h)
BridgeMessage(h, text) == nupdates < MaxUpdates /\ handle_message(h, text)

Init == AgentInit(Handlers, {DefaultConfig}) /\ BridgeInit

Next ==
    \/ \E t \in Threads : ReaderExit(t)
    \/ \E t \in Threads : ReaderPoll(t)
    \/ \E t \in Threads : ReaderIdle(t)
    \/ \E t \in Threads : ReaderEOF(t)
    \/ \E t \in Threads : \E data \in BridgeChunks : BridgeRead(t, data)
    \/ \E t \in Threads : ReaderEnqueue(t)
    \/ ChildExit
    \/ \E h \in Handlers : \E user \in Users :
          \E text \in BridgeTexts \cup {<<"/start">>, <<"/stop">>, <<"/status">>} :
              BridgeUnauthorized(h, user, text)
    \/ \E h \in Handlers : \E outcome \in {"ok", "died", "error"} : BridgeStart(h, outcome)
    \/ \E h \in Handlers : handle_start_monitor(h)
    \/ \E h \in Handlers : BridgeStop(h)
    \/ \E h \in Handlers : BridgeStatus(h)
    \/ \E h \in Handlers : \E text \in BridgeTexts : BridgeMessage(h, text)
    \/ \E h \in Handlers : handle_message_write(h)
    \/ \E h \in Handlers : handle_message_sent(h)
    \/ \E h \in Handlers : handle_message_collect(h)
    \/ relay_exit
    \/ relay_iterate
    \/ \E ok \in BOOLEAN : relay_send(ok)

Spec == Init /\ [][Next]_vars

\* ------------------------------------------- the bridge's life cycle alone
\* /start, /stop and /status, the reader and the relay loop, without free-text
\* messages and with a child that lives until it is stopped: long enough for a
\* stop and a restart.
RelayUpdates == 3
RelayReads == 2

\* Two chunks that differ in their whitespace only and are too long to be
\* combined into one block, and a prompt.
RelayChunks == { <<"T2000", " ", "T1000", "\n">>, <<"T2000", " ", " ", "T1000">>,
                 <<"Continue?", " ">> }

RelayRead(t, data) == nreads < RelayReads /\ ReaderRead(t, data)
RelayStart(h, outcome) == nupdates < RelayUpdates /\ handle_start(h, outcome)
RelayStop(h) == nupdates < RelayUpdates /\ handle_stop(h)
RelayStatus(h) == nupdates < RelayUpdates /\ handle_status(h)

NextRelay ==
    \/ \E t \in Threads : ReaderExit(t)
    \/ \E t \in Threads : ReaderPoll(t)
    \/ \E t \in Threads : ReaderIdle(t)
    \/ \E t \in Threads : \E data \in RelayChunks : RelayRead(t, data)
    \/ \E t \in Threads : ReaderEnqueue(t)
    \/ \E h \in Handlers : \E outcome \in {"ok", "died", "error"} : RelayStart(h, outcome)
    \/ \E h \in Handlers : handle_start_monitor(h)
    \/ \E h \in Handlers : RelayStop(h)
    \/ \E h \in Handlers : RelayStatus(h)
    \/ relay_exit
    \/ relay_iterate
    \/ \E ok \in BOOLEAN : relay_send(ok)

SpecRelay == Init /\ [][NextRelay]_vars

\* ------------------------------------------- size and rate policy of the bridge
\* The configured maximum length of a free-text message and the configured
\* minimum interval between two accepted ones, scaled; the clock's last tick.
MAX_MESSAGE_LENGTH == 4
MIN_INTERVAL == 2
MaxClock == 3

\* Time passes.
Tick ==
    /\ limiter.now < MaxClock
    /\ limiter' = [limiter EXCEPT !.now = @ + 1]
    /\ ev' = NoEvent
    /\ UNCHANGED <<agentVars, hs, nupdates, output_monitor_task, relay>>

\* A process_message whose size check rejects a message of the maximum length.
process_message_max_rejected(h, text) ==
    /\ Dispatchable(h)
    /\ nupdates' = nupdates + 1
    /\ IF TextLen(text) >= MAX_MESSAGE_LENGTH
       THEN /\ ev' = Completed("handler", h, AUTHORIZED_USER, text,
                               <<Reply("too_long", <<>>)>>, <<>>)
            /\ UNCHANGED <<agentVars, hs, limiter>>
       ELSE IF limiter.last # -1 /\ limiter.now - limiter.last < MIN_INTERVAL
       THEN /\ ev' = Completed("handler", h, AUTHORIZED_USER, text,
                               <<Reply("please_wait", <<>>)>>, <<>>)
            /\ UNCHANGED <<agentVars, hs, limiter>>
       ELSE /\ limiter' = [limiter EXCEPT !.last = limiter.now]
            /\ IF ~is_running_flag
               THEN /\ ev' = Completed("handler", h, AUTHORIZED_USER, text,
                                       <<Reply("not_running", <<>>)>>, <<>>)
                    /\ UNCHANGED <<agentVars, hs>>
               ELSE /\ send_command_begin(h, Strip(text))
                    /\ ev' = NoEvent
                    /\ hs' = [hs EXCEPT ![h] =
                                 [pc |-> "sending", user |-> AUTHORIZED_USER,
                                  text |-> text, replies |-> <<>>,
                                  calls |-> <<"send_command">>]]
    /\ UNCHANGED <<output_monitor_task, relay>>

\* A process_message that never records the time of an accepted message.
process_message_unrecorded(h, text) ==
    /\ Dispatchable(h)
    /\ nupdates' = nupdates + 1
    /\ IF TextLen(text) > MAX_MESSAGE_LENGTH
       THEN /\ ev' = Completed("handler", h, AUTHORIZED_USER, text,
                               <<Reply("too_long", <<>>)>>, <<>>)
            /\ UNCHANGED <<agentVars, hs, limiter>>
       ELSE IF limiter.last # -1 /\ limiter.now - limiter.last < MIN_INTERVAL
       THEN /\ ev' = Completed("handler", h, AUTHORIZED_USER, text,
                               <<Reply("please_wait", <<>>)>>, <<>>)
            /\ UNCHANGED <<agentVars, hs, limiter>>
       ELSE /\ UNCHANGED limiter
            /\ IF ~is_running_flag
               THEN /\ ev' = Completed("handler", h, AUTHORIZED_USER, text,
                                       <<Reply("not_running", <<>>)>>, <<>>)
                    /\ UNCHANGED <<agentVars, hs>>
               ELSE /\ send_command_begin(h, Strip(text))
                    /\ ev' = NoEvent
                    /\ hs' = [hs EXCEPT ![h] =
                                 [pc |-> "sending", user |-> AUTHORIZED_USER,
                                  text |-> text, replies |-> <<>>,
                                  calls |-> <<"send_command">>]]
    /\ UNCHANGED <<output_monitor_task, relay>>

\* The bridge's handling of a free-text message of the authorized user:
\* SizeCheck, RateCheck, then Dispatch (send_command, the acknowledgment, the
\* wait and one get_output, as in handle_message).
process_message(h, text) ==
    /\ Dispatchable(h)
    /\ nupdates' = nupdates + 1
    /\ IF TextLen(text) > MAX_MESSAGE_LENGTH
       THEN /\ ev' = Completed("handler", h, AUTHORIZED_USER, text,
                               <<Reply("too_long", <<>>)>>, <<>>)
            /\ UNCHANGED <<agentVars, hs, limiter>>
       ELSE IF limiter.last # -1 /\ limiter.now - limiter.last < MIN_INTERVAL
       THEN /\ ev' = Completed("handler", h, AUTHORIZED_USER, text,
                               <<Reply("please_wait", <<>>)>>, <<>>)
            /\ UNCHANGED <<agentVars, hs, limiter>>
       ELSE /\ limiter' = [limiter EXCEPT !.last = limiter.now]
            /\ IF ~is_running_flag
               THEN /\ ev' = Completed("handler", h, AUTHORIZED_USER, text,
                                       <<Reply("not_running", <<>>)>>, <<>>)
                    /\ UNCHANGED <<agentVars, hs>>
               ELSE /\ send_command_begin(h, Strip(text))
                    /\ ev' = NoEvent
                    /\ hs' = [hs EXCEPT ![h] =
                                 [pc |-> "sending", user |-> AUTHORIZED_USER,
                                  text |-> text, replies |-> <<>>,
                                  calls |-> <<"send_command">>]]
    /\ UNCHANGED <<output_monitor_task, relay>>

\* Messages of 2, 4, 5 and 6 characters.
PolicyTexts == { <<"ls">>, <<"ok", "ls">>, <<"ok", "ls", "|">>, <<"ok", "ls", "ok">> }
PolicyUpdates == 3

PolicyStart(h, outcome) == nupdates < PolicyUpdates /\ handle_start(h, outcome)
PolicyMessage(h, text) == nupdates < PolicyUpdates /\ process_message(h, text)

NextPolicy ==
    \/ \E h \in Handlers : \E outcome \in {"ok", "error"} : PolicyStart(h, outcome)
    \/ \E h \in Handlers : handle_start_monitor(h)
    \/ \E h \in Handlers : \E text \in PolicyTexts : PolicyMessage(h, text)
    \/ \E h \in Handlers : handle_message_write(h)
    \/ \E h \in Handlers : handle_message_sent(h)
    \/ \E h \in Handlers : handle_message_collect(h)
    \/ Tick

SpecPolicy == Init /\ [][NextPolicy]_vars

\* --------------------------------------- concurrent callers of send_command
\* Free-text messages handled by the bridge while a second thread calls
\* send_command on the same agent: command_lock is what orders them.  The
\* child prints nothing here.
WriterUpdates == 3
WriterCommands == 3

InitWriters == AgentInit(Handlers \cup Clients, {DefaultConfig}) /\ BridgeInit

WriterStart(h) == nupdates < WriterUpdates /\ handle_start(h, "ok")
WriterMessage(h, text) ==
    /\ nupdates < WriterUpdates
    /\ Len(pty_in) < WriterCommands
    /\ handle_message(h, text)
WriterSendCommand(c, command) ==
    /\ Len(pty_in) < WriterCommands
    /\ send_command_begin(c, command)
    /\ UNCHANGED bridgeVars
    /\ ev' = NoEvent

NextWriters ==
    \/ \E h \in Handlers : WriterStart(h)
    \/ \E h \in Handlers : handle_start_monitor(h)
    \/ \E h \in Handlers : \E text \in BridgeTexts : WriterMessage(h, text)
    \/ \E h \in Handlers : handle_message_write(h)
    \/ \E h \in Handlers : handle_message_sent(h)
    \/ \E h \in Handlers : handle_message_collect(h)
    \/ \E c \in Clients : \E command \in AgentCommands : WriterSendCommand(c, command)
    \/ \E c \in Clients : SendWrite(c)
    \/ \E c \in Clients : SendFail(c)
    \/ \E c \in Clients : SendReturn(c)

SpecWriters == InitWriters /\ [][NextWriters]_vars

\* ------------------------------------------------- the two background loops
\* /start and /stop with the reader thread and the relay task, each of which
\* is scheduled again and again: the thread by the operating system, the task
\* by the event loop (every await of the relay is a sleep or a send that ends).
LoopUpdates == 3
LoopReads == 1
LoopChunks == { <<"ok", "\n">> }

LoopRead(t, data) == nreads < LoopReads /\ ReaderRead(t, data)
LoopStart(h) == nupdates < LoopUpdates /\ handle_start(h, "ok")
LoopStop(h) == nupdates < LoopUpdates /\ handle_stop(h)

\* One step of reader thread t.
ReaderStep(t) ==
    \/ ReaderExit(t)
    \/ ReaderPoll(t)
    \/ ReaderIdle(t)
    \/ \E data \in LoopChunks : LoopRead(t, data)
    \/ ReaderEnqueue(t)

NextLoops ==
    \/ \E t \in Threads : ReaderStep(t)
    \/ relay_exit
    \/ relay_iterate
    \/ \E ok \in BOOLEAN : relay_send(ok)
    \/ \E h \in Handlers : LoopStart(h)
    \/ \E h \in Handlers : handle_start_monitor(h)
    \/ \E h \in Handlers : LoopStop(h)

SpecLoops ==
    /\ Init
    /\ [][NextLoops]_vars
    /\ \A t \in Threads : WF_vars(ReaderStep(t))
    /\ WF_vars(relay_exit)
    /\ WF_vars(\E ok \in BOOLEAN : relay_send(ok))
    /\ WF_vars(\E h \in Handlers : handle_start_monitor(h))

\* ------------------------------------------------- failures in the reader
\* The reader thread with reads and chunk processing that may raise, under a
\* control thread that starts and stops the agent.
ErrorChunks == { <<"ok">>, <<"Continue?", " ">> }

NextReadErrors ==
    \/ \E t \in Threads : ReaderExit(t)
    \/ \E t \in Threads : ReaderPoll(t)
    \/ \E t \in Threads : ReaderIdle(t)
    \/ \E t \in Threads : \E data \in ErrorChunks : ReaderRead(t, data)
    \/ \E t \in Threads : ReaderEnqueue(t)
    \/ \E t \in Threads : ReaderReadError(t)
    \/ \E t \in Threads : \E data \in ErrorChunks : ReaderProcessError(t, data)
    \/ \E c \in Clients : CallStart(c, "ok")
    \/ \E c \in Clients : CallStop(c)

SpecReadErrors == InitAgent /\ [][NextReadErrors]_vars

\* ------------------------------------------------ the relay's noise filter
\* A running agent whose child prints user-interface noise: a repetitive
\* status line, a short run of box glyphs with a word, plain text, and an
\* agent response that carries the status line.
NoiseReads == 3
NoiseChunks ==
    { <<"|", "/plan or /act">>, <<"+", "|", "L", "ok">>, <<"ok", "\n">>,
      <<"###", "|", "/plan or /act">> }

NoiseRead(t, data) == nreads < NoiseReads /\ ReaderRead(t, data)
NoiseStart(h) == nupdates = 0 /\ handle_start(h, "ok")

NextNoise ==
    \/ \E t \in Threads : ReaderPoll(t)
    \/ \E t \in Threads : ReaderIdle(t)
    \/ \E t \in Threads : \E data \in NoiseChunks : NoiseRead(t, data)
    \/ \E t \in Threads : ReaderEnqueue(t)
    \/ \E h \in Handlers : NoiseStart(h)
    \/ \E h \in Handlers : handle_start_monitor(h)
    \/ relay_iterate
    \/ \E ok \in BOOLEAN : relay_send(ok)

SpecNoise == Init /\ [][NextNoise]_vars

\* ------------------------------------------------- the transport is down
\* A running agent prints the chunks of RelayChunks while every send of the
\* relay loop fails in the transport.
OutageStart(h) == nupdates = 0 /\ handle_start(h, "ok")
OutageSend == relay_send(FALSE)

NextOutage ==
    \/ \E t \in Threads : ReaderPoll(t)
    \/ \E t \in Threads : ReaderIdle(t)
    \/ \E t \in Threads : \E data \in RelayChunks : RelayRead(t, data)
    \/ \E t \in Threads : ReaderEnqueue(t)
    \/ \E h \in Handlers : OutageStart(h)
    \/ \E h \in Handlers : handle_start_monitor(h)
    \/ relay_iterate
    \/ OutageSend

SpecOutage == Init /\ [][NextOutage]_vars

\* ================================================================== claims

\* C2: a send_command call on a running agent that returns success has written
\* to the terminal exactly once, and what it wrote is the command text
\* immediately followed by one line terminator; that write is the last thing
\* the terminal received.
C2_SuccessWroteCommandOnce ==
    \A c \in DOMAIN sc :
        sc[c].result = COMMAND_SENT =>
            /\ Len(sc[c].wrote) = 1
            /\ sc[c].wrote[1] = sc[c].cmd \o <<CRLF>>
            /\ pty_in # <<>>
            /\ pty_in[Len(pty_in)] = sc[c].cmd \o <<CRLF>>

\* A successful send_command of a command text that itself ends in a newline.
C2_Witness ==
    \E c \in DOMAIN sc :
        /\ sc[c].result = COMMAND_SENT
        /\ sc[c].cmd = <<"ok", "\n">>
        /\ Len(pty_in) = 2

\* C3: under every interleaving of the reader loop with send_command,
\* waiting_for_input is false at the moment the write of a send_command has
\* succeeded.
C3_PromptClearAtWrite ==
    [][\A c \in DOMAIN sc :
          (sc[c].pc = "write" /\ sc'[c].pc = "sleep") => ~waiting_for_input']_vars

\* A step in which caller c makes a call of get_output.
IsGetOutputCall(c) == sc'[c].tick # sc[c].tick /\ sc'[c].op = "get_output"

\* a occurs in b as a contiguous piece.
IsInfix(a, b) ==
    \E k \in 0 .. (Len(b) - Len(a)) : SubSeq(b, k + 1, k + Len(a)) = a

\* C5: every get_output call returns at most 4000 characters; a fragment that
\* would take the combined text past 4000 is pushed back whole (what is left
\* in the queue is a tail of the queue before the call) and is returned by a
\* later call: no call on a non-empty queue leaves the queue as it was.
C5_CapAndPushBack ==
    [][\A c \in DOMAIN sc :
          IsGetOutputCall(c) =>
              /\ TextLen(sc'[c].out.content) <= 4000
              /\ Len(output_queue') <= Len(output_queue)
              /\ output_queue' = SubSeq(output_queue,
                                        Len(output_queue) - Len(output_queue') + 1,
                                        Len(output_queue))
              /\ output_queue # <<>> => Len(output_queue') < Len(output_queue)]_vars

\* C6: get_output returns nothing only if the queue is empty or the text it
\* combined is blank after trimming; when the fragment at the head of the
\* queue has non-blank text, get_output returns an AgentOutput message that
\* contains that text, trimmed.
C6_NonBlankHeadReturned ==
    [][\A c \in DOMAIN sc :
          IsGetOutputCall(c) =>
              /\ sc'[c].out.type = "none" =>
                    \/ output_queue = <<>>
                    \/ Strip(Combined(SubSeq(output_queue, 1,
                              Len(output_queue) - Len(output_queue')))) = <<>>
              /\ (output_queue # <<>> /\ Strip(Head(output_queue).text) # <<>>) =>
                    /\ sc'[c].out.type = "agent_output"
                    /\ IsInfix(Strip(Head(output_queue).text), sc'[c].out.content)]_vars

\* C7: provided get_output keeps being called, the queue never stays non-empty
\* forever: the fragments the reader enqueued are eventually taken out.
C7_QueueEventuallyDrained == []<>(output_queue = <<>>)

\* C9: the output queue never holds more than its capacity; an append to a
\* full queue discards the oldest fragment, keeps the new one and leaves the
\* order of the others unchanged (an append to a queue with room keeps all).
C9_BoundedDropOldest ==
    /\ [](Len(output_queue) <= OUTPUT_QUEUE_MAXLEN)
    /\ [][\A t \in Threads :
             (rd[t].pc = "enqueue" /\ rd'[t].pc # "enqueue") =>
                 IF Len(output_queue) = OUTPUT_QUEUE_MAXLEN
                 THEN /\ Len(output_queue') = OUTPUT_QUEUE_MAXLEN
                      /\ output_queue' = Append(Tail(output_queue), rd[t].out)
                 ELSE output_queue' = Append(output_queue, rd[t].out)]_vars

\* The queue is full and its oldest fragment was discarded by an append: no
\* get_output call has been made.
C9_Witness ==
    /\ Len(output_queue) = OUTPUT_QUEUE_MAXLEN
    /\ Head(output_queue).id = 2
    /\ output_queue[Len(output_queue)].id = OUTPUT_QUEUE_MAXLEN + 1
    /\ \A c \in DOMAIN sc : sc[c].op = "start"

\* The "mostly empty" rule, on a cleaned text: at most three characters after
\* trimming, all of them box glyphs or whitespace.
C10_Decorative(clean) ==
    /\ Strip(clean) # <<>>
    /\ \A i \in DOMAIN Strip(clean) : Strip(clean)[i] \in {"|", " ", "\n", CRLF}
    /\ TextLen(Strip(clean)) <= 3

C10_HasKeyword(clean) ==
    \E i \in DOMAIN clean :
        LowerLex(clean[i]) \in (config.welcome_keywords \cup config.mode_keywords)

\* C10: for every chunk the reader processes: a cleaned text that is decorative
\* under the "mostly empty" rule and holds no welcome or mode-switch keyword is
\* not enqueued and leaves the prompt flag alone; every other cleaned text is
\* enqueued exactly once (the reader's next step appends it, and no fragment
\* id is in the queue twice).
C10_DecorativeFiltered ==
    /\ [](\A i, j \in DOMAIN output_queue :
              output_queue[i].id = output_queue[j].id => i = j)
    /\ [][\A t \in Threads :
             /\ (nreads' = nreads + 1 /\ rd'[t] # rd[t]) =>
                   LET clean == strip_ansi_codes(rd'[t].raw)
                   IN IF C10_Decorative(clean) /\ ~C10_HasKeyword(clean)
                      THEN /\ rd'[t].pc = "loop"
                           /\ rd'[t].out = NoFragment
                           /\ UNCHANGED <<output_queue, waiting_for_input,
                                          input_prompt, last_prompt_time>>
                      ELSE /\ rd'[t].pc = "enqueue"
                           /\ rd'[t].out = [id |-> nreads', text |-> clean]
                           /\ UNCHANGED output_queue
             /\ (rd[t].pc = "enqueue" /\ rd'[t] # rd[t]) =>
                   /\ output_queue' # <<>>
                   /\ output_queue'[Len(output_queue')] = rd[t].out
                   /\ Count(FragIds(output_queue'), rd[t].out.id) = 1
                   /\ rd'[t].out = NoFragment]_vars

\* A decorative chunk was discarded while a prompt fragment read before it is
\* in the queue, under the default keywords.
C10_Witness ==
    /\ config = DefaultConfig
    /\ \E t \in Threads : rd[t].pc = "loop" /\ rd[t].raw = <<ESC, "|", " ">>
    /\ \E i \in DOMAIN output_queue : output_queue[i].text = <<"ok", "[y/N]", " ">>
    /\ waiting_for_input

\* C1: an update whose sender is not the authorized user is answered with the
\* Unauthorized notice and nothing else: the handler calls none of start, stop,
\* send_command, get_output, and the agent, the handlers in flight and the
\* relay task are as they were.
C1_UnauthorizedRejected ==
    [][(ev'.op = "handler" /\ ev'.user # AUTHORIZED_USER) =>
          /\ ev'.replies = <<Reply("unauthorized", <<>>)>>
          /\ ev'.calls = <<>>
          /\ UNCHANGED <<agentVars, hs, output_monitor_task, relay>>]_vars

\* A stranger has sent "/stop" to a running agent.
C1_Witness ==
    /\ ev.op = "handler"
    /\ ev.user = "stranger"
    /\ ev.text = <<"/stop">>
    /\ is_running_flag

\* The step hands a free-text message of the authorized user to handle_message.
IsMessageDispatch ==
    /\ nupdates' # nupdates
    /\ \/ ev'.op = "handler" /\ ev'.user = AUTHORIZED_USER /\ ev'.text \in BridgeTexts
       \/ \E h \in Handlers : /\ hs[h].pc = "idle"
                              /\ hs'[h].pc # "idle"
                              /\ hs'[h].text \in BridgeTexts

\* C4: a message dispatched while the agent is not running is answered with
\* the not-running error and nothing else happens: no agent call, nothing
\* written to the terminal, waiting_for_input, input_prompt, the output queue
\* and the running flag unchanged.  And no step writes to the terminal when the
\* running flag is false.
C4_NotRunningNoEffect ==
    /\ [][(IsMessageDispatch /\ ~is_running_flag) =>
             /\ ev'.op = "handler"
             /\ ev'.replies = <<Reply("not_running", <<>>)>>
             /\ ev'.calls = <<>>
             /\ UNCHANGED <<pty_in, waiting_for_input, input_prompt, output_queue,
                            is_running_flag, hs, sc>>]_vars
    /\ [][pty_in' # pty_in => is_running_flag /\ is_running_flag']_vars

\* A message was sent to an agent whose start had failed.
C4_Witness ==
    /\ ev.op = "handler"
    /\ ev.text \in BridgeTexts
    /\ ev.replies = <<Reply("not_running", <<>>)>>
    /\ nupdates = 2
    /\ ~is_running_flag

\* C4, at the agent's own interface: send_command on an agent that is not
\* running returns the not-running error and changes nothing.
SendCommandNotRunning ==
    [][\A c \in DOMAIN sc :
          (sc'[c].tick # sc[c].tick /\ sc'[c].op = "send_command" /\ ~is_running_flag) =>
              /\ sc'[c].result = NOT_RUNNING
              /\ sc'[c].pc = "idle"
              /\ UNCHANGED <<pty_in, waiting_for_input, input_prompt, output_queue,
                             is_running_flag, command_lock>>]_vars

\* C8: whatever the order in which the relay loop and the handlers call
\* get_output, every fragment the reader enqueued is part of at most one
\* returned message, pushed-back fragments included.
C8_DeliveredAtMostOnce == \A i \in DOMAIN delivered : delivered[i] <= 1

\* The relay's get_output returned fragment 1 alone (fragment 2 does not fit
\* under the cap with it) and a handler's get_output returned fragment 2.
C8_Witness ==
    /\ relay.pc = "send"
    /\ relay.out.ids = <<1>>
    /\ relay.out.content = <<"T2000">>
    /\ ev.op = "handler"
    /\ Len(ev.replies) = 2
    /\ ev.replies[2] = Reply("output", <<"T2000", "T1000">>)
    /\ delivered[2] = 1

\* The cleaned text ends, up to trailing whitespace, in an interactive prompt.
C11_EndsInPrompt(clean) ==
    \E i \in DOMAIN clean :
        /\ clean[i] \in {"[y/N]", "Continue?"}
        /\ \A j \in (i + 1) .. Len(clean) : clean[j] \in {" ", "\n", CRLF}

\* C11: when the reader processes a chunk whose cleaned text ends in a prompt,
\* waiting_for_input becomes true and the trimmed text and the time are
\* recorded; the flag becomes true in no other way; and every send_command
\* that goes on to write has reset the flag to false and the prompt to empty.
C11_PromptSetThenCleared ==
    /\ [][\A t \in Threads :
             (/\ nreads' = nreads + 1
              /\ rd'[t] # rd[t]
              /\ C11_EndsInPrompt(strip_ansi_codes(rd'[t].raw))) =>
                 /\ waiting_for_input'
                 /\ input_prompt' = Strip(strip_ansi_codes(rd'[t].raw))
                 /\ last_prompt_time' = nreads']_vars
    /\ [][(~waiting_for_input /\ waiting_for_input') =>
             \E t \in Threads :
                 /\ nreads' = nreads + 1
                 /\ C11_EndsInPrompt(strip_ansi_codes(rd'[t].raw))]_vars
    /\ [][\A c \in DOMAIN sc :
             (sc[c].pc = "idle" /\ sc'[c].pc = "write") =>
                 /\ ~waiting_for_input'
                 /\ input_prompt' = <<>>]_vars

\* A prompt was detected, and a send_command after it returned success with
\* the flag and the prompt reset.
C11_Witness ==
    /\ last_prompt_time > 0
    /\ \E c \in DOMAIN sc : sc[c].result = COMMAND_SENT
    /\ ~waiting_for_input
    /\ input_prompt = <<>>

\* C12: the relay loop sends no block whose whitespace-normalized text is in
\* the dedup window, and the block it sends enters the window with that send:
\* of the blocks with one fingerprint, only the first goes to the transport
\* while that fingerprint is in the window.
C12_NoResendWithinWindow ==
    [][ev'.op \in {"relay_sent", "relay_send_failed"} =>
          /\ \A k \in DOMAIN relay.recent_messages :
                relay.recent_messages[k] # Normalize(ev'.text)
          /\ relay'.recent_messages # <<>>
          /\ relay'.recent_messages[Len(relay'.recent_messages)] = Normalize(ev'.text)]_vars

\* Two fragments too long for one block were both taken by the relay loop, and
\* the window holds one fingerprint: the second block was suppressed.
C12_Witness ==
    /\ relay.pc = "loop"
    /\ relay.recent_messages = << <<"T2000", " ", "T1000">> >>
    /\ delivered[1] = 1
    /\ delivered[2] = 1
    /\ output_queue = <<>>

\* The step hands a "/start" of the authorized user to handle_command.
IsStartDispatch ==
    /\ nupdates' # nupdates
    /\ \/ ev'.op = "handler" /\ ev'.user = AUTHORIZED_USER /\ ev'.text = <<"/start">>
       \/ \E h \in Handlers : /\ hs[h].pc = "idle"
                              /\ hs'[h].pc # "idle"
                              /\ hs'[h].text = <<"/start">>

\* C13: a "/start" that finds the agent running only answers "already
\* running": agent.start is not called, the agent and the relay task are as
\* they were; and a relay loop is launched only while output_monitor_task is
\* unset, which it never is again: the number of launches stays 1.
C13_StartIdempotent ==
    /\ [][(IsStartDispatch /\ is_running_flag) =>
             /\ ev'.op = "handler"
             /\ ev'.replies = <<Reply("already_running", <<>>)>>
             /\ ev'.calls = <<>>
             /\ UNCHANGED <<agentVars, hs, output_monitor_task, relay>>]_vars
    /\ [][(relay.pc \in {"none", "done"} /\ relay'.pc = "loop") =>
             output_monitor_task = "none"]_vars
    /\ [][output_monitor_task = "task" => output_monitor_task' = "task"]_vars

\* The second "/start" was answered "already running" while the one relay loop
\* runs.
C13_Witness ==
    /\ ev.op = "handler"
    /\ ev.text = <<"/start">>
    /\ ev.replies = <<Reply("already_running", <<>>)>>
    /\ relay.pc = "loop"
    /\ nupdates = 2

\* C14: when a "/start" has succeeded and its handler is through, a relay loop
\* is running (so that what the agent prints from then on is relayed), also
\* when an earlier relay loop had ended after a "/stop".
C14_StartLeavesRelayRunning ==
    [][(/\ ev'.op = "handler"
        /\ ev'.text = <<"/start">>
        /\ ev'.replies = <<Reply("started", <<>>)>>) =>
          relay'.pc \in {"loop", "send"}]_vars

\* The step hands the free-text message `text` of the authorized user to the
\* bridge.
PolicyDispatched(text) ==
    /\ nupdates' # nupdates
    /\ \/ ev'.op = "handler" /\ ev'.user = AUTHORIZED_USER /\ ev'.text = text
       \/ \E h \in Handlers : /\ hs[h].pc = "idle"
                              /\ hs'[h].pc # "idle"
                              /\ hs'[h].text = text

\* Less than the minimum interval has passed since the last accepted message.
RateLimited == limiter.last # -1 /\ limiter.now - limiter.last < MIN_INTERVAL

C17_StatusReport ==
    [][(ev'.op = "handler" /\ ev'.text = <<"/status">> /\ ev'.user = AUTHORIZED_USER) =>
          /\ Len(ev'.replies) = 1
          /\ ev'.replies[1].kind = (IF is_running_flag THEN "status_running"
                                                       ELSE "status_stopped")
          /\ (ev'.replies[1].text # <<>>) <=> (is_running_flag /\ waiting_for_input)]_vars

\* C18: a "/start" that finds the agent stopped calls agent.start once.  Either
\* it fails: the failure is what the user is told, the running flag is still
\* false, and no reader thread and no relay loop has come to be; or it
\* succeeds: the agent runs with one more reader thread.  A relay loop is
\* launched only by the handler of a "/start" that succeeded.
C18_StartOnceFailureReported ==
    /\ [][(IsStartDispatch /\ ~is_running_flag) =>
             \/ /\ ev'.op = "handler"
                /\ ev'.replies = <<Reply("start_failed", <<>>)>>
                /\ ev'.calls = <<"start">>
                /\ ~is_running_flag'
                /\ UNCHANGED <<rd, hs, relay, output_monitor_task, stop_reading>>
             \/ /\ ev'.op = "none"
                /\ is_running_flag'
                /\ \E h \in Handlers :
                      /\ hs'[h].pc = "started"
                      /\ hs'[h].calls = <<"start">>
                      /\ hs'[h].replies = <<Reply("started", <<>>)>>
                /\ Cardinality({t \in Threads : rd'[t] # rd[t]}) = 1
                /\ UNCHANGED <<relay, output_monitor_task>>]_vars
    /\ [][relay'.pc = "loop" /\ relay.pc \in {"none", "done"} =>
             \E h \in Handlers : /\ hs[h].pc = "started"
                                 /\ hs[h].replies = <<Reply("started", <<>>)>>
                                 /\ ev'.calls = <<"start">>]_vars

\* The child exited during the grace interval: the user was told, nothing runs.
C18_Witness ==
    /\ ev.op = "handler"
    /\ ev.replies = <<Reply("start_failed", <<>>)>>
    /\ process = "exited"
    /\ ~is_running_flag
    /\ relay.pc = "none"
    /\ \A t \in Threads : rd[t].pc = "unborn"

\* C19: "/stop" calls stop() whatever the state of the agent and then reports
\* completion; when stop() has returned, the running flag is false and the
\* reader is told to end: if the agent never ran, if it ran, if the child had
\* exited before, and if terminating the child raised an error.
C19_StopLeavesStopped ==
    [][(/\ nupdates' # nupdates
        /\ ev'.op = "handler"
        /\ ev'.user = AUTHORIZED_USER
        /\ ev'.text = <<"/stop">>) =>
          /\ ev'.replies = <<Reply("stopped", <<>>)>>
          /\ ev'.calls = <<"stop">>
          /\ ~is_running_flag'
          /\ stop_reading'
          /\ (process = "none") <=> (process' = "none")]_vars

\* A running agent was stopped and terminating the child raised an error: the
\* child is alive and the agent is stopped.
C19_Witness ==
    /\ ev.op = "handler"
    /\ ev.text = <<"/stop">>
    /\ ev.replies = <<Reply("stopped", <<>>)>>
    /\ process = "alive"
    /\ ~is_running_flag

\* Handler h takes up a free-text message of the authorized user while the
\* agent is running.
MessageAccepted(h) ==
    /\ nupdates' # nupdates
    /\ is_running_flag
    /\ hs[h].pc = "idle"
    /\ hs'[h].pc # "idle"
    /\ hs'[h].text \in BridgeTexts

\* Handler h is at work on a free-text message.
MessageInHand(h) == hs[h].pc \in {"sending", "wait"} /\ hs[h].text \in BridgeTexts

\* The order of an accepted message's handling: one send_command, whose
\* command stays what it was; the acknowledgment once send_command is through
\* and before get_output; one get_output after the wait, which ends the
\* handler; the output reply, when get_output returned one, second and last.
AckThenOutput ==
    /\ [][\A h \in Handlers :
             /\ MessageAccepted(h) =>
                   /\ hs'[h].calls = <<"send_command">>
                   /\ sc'[h].op = "send_command"
                   /\ sc'[h].tick # sc[h].tick
             /\ (MessageInHand(h) /\ hs'[h].pc # "idle") =>
                   /\ sc'[h].tick = sc[h].tick
                   /\ sc'[h].cmd = sc[h].cmd
                   /\ hs'[h].calls = <<"send_command">>
                   /\ \/ hs'[h] = hs[h]
                      \/ /\ hs[h].pc = "sending"
                         /\ hs'[h].pc = "wait"
                         /\ hs'[h].replies = <<Reply("command_sent", sc[h].cmd)>>
             /\ (MessageInHand(h) /\ hs'[h].pc = "idle") =>
                   /\ hs[h].pc = "wait"
                   /\ ev'.op = "handler"
                   /\ ev'.text = hs[h].text
                   /\ ev'.calls = <<"send_command", "get_output">>
                   /\ ev'.replies[1] = Reply("command_sent", sc[h].cmd)
                   /\ IF GetOutputResult(output_queue).msg.type = "none"
                      THEN Len(ev'.replies) = 1
                      ELSE /\ Len(ev'.replies) = 2
                           /\ ev'.replies[2] =
                                 Reply("output", GetOutputResult(output_queue).msg.content)]_vars

\* C20 as stated: send_command is called with the message text as it came,
\* once; the acknowledgment is delivered before get_output is called, once,
\* after the wait; the output reply, if any, follows the acknowledgment.
C20_ForwardedVerbatim ==
    /\ [][\A h \in Handlers : MessageAccepted(h) => sc'[h].cmd = hs'[h].text]_vars
    /\ AckThenOutput

\* C20, amended: send_command is called once with the message text stripped
\* of leading and trailing whitespace, and the acknowledgment quotes that
\* text; the acknowledgment is delivered before get_output is called, once,
\* after the wait; the output reply, if any, follows the acknowledgment.
C20_ForwardedStripped ==
    /\ [][\A h \in Handlers : MessageAccepted(h) => sc'[h].cmd = Strip(hs'[h].text)]_vars
    /\ AckThenOutput

\* The message " ls " was handled to the end: "ls" went to the agent, the
\* acknowledgment was delivered and then the output get_output returned.
C20_Witness ==
    /\ ev.op = "handler"
    /\ ev.text = <<" ", "ls", " ">>
    /\ ev.calls = <<"send_command", "get_output">>
    /\ Len(ev.replies) = 2
    /\ ev.replies[1] = Reply("command_sent", <<"ls">>)
    /\ ev.replies[2].kind = "output"
    /\ Len(pty_in) > 0
    /\ pty_in[Len(pty_in)] = <<"ls", CRLF>>

\* C21: when the send_command of a free-text dispatch failed (not running, or
\* the write raised), the user gets an error message and is not told that the
\* command was sent.
C21_FailureReported ==
    \A h \in Handlers :
        (/\ hs[h].pc = "wait"
         /\ sc[h].op = "send_command"
         /\ sc[h].result \in {NOT_RUNNING, WRITE_FAILURE}) =>
            /\ Len(hs[h].replies) = 1
            /\ hs[h].replies[1].kind = "error"

\* The callers that are inside the critical section of send_command: between
\* taking command_lock and the end of the with block.
InCriticalSection ==
    {c \in DOMAIN sc : sc[c].op = "send_command" /\ sc[c].pc \in {"write", "sleep"}}

\* C22: at most one caller of send_command is between taking command_lock and
\* the end of its write; the lock is held by that caller and by nobody when
\* there is none, so a handler that waits for the agent's output after its
\* send_command keeps no other caller from writing.
C22_WritesExclusive ==
    /\ Cardinality(InCriticalSection) <= 1
    /\ \A c \in InCriticalSection : command_lock = c
    /\ command_lock = "free" <=> InCriticalSection = {}
    /\ \A h \in Handlers : hs[h].pc = "wait" => command_lock # h

\* The first handler waits for the agent's output; meanwhile the second
\* thread has taken the lock and is about to write.
C22_Witness ==
    /\ hs["h1"].pc = "wait"
    /\ hs["h1"].replies = <<Reply("command_sent", <<"ls">>)>>
    /\ sc["h1"].result = COMMAND_SENT
    /\ command_lock = "ctl"
    /\ sc["ctl"].pc = "write"

\* C23: when the reader observes end-of-stream (os.read returns no data and
\* the loop breaks), the running flag is false afterwards, without a stop().
C23_EOFClearsRunning ==
    [][\A t \in Threads :
          (rd[t].pc = "select" /\ rd'[t].pc = "done") => ~is_running_flag']_vars

\* Neither background loop is running: no reader thread is alive, and the
\* relay task has ended or was not launched and no handler is about to
\* launch it.
LoopsEnded ==
    /\ \A t \in Threads : rd[t].pc \in {"unborn", "done"}
    /\ relay.pc \in {"none", "done"}
    /\ \A h \in Handlers : hs[h].pc # "started"

\* C24: once stop() has returned, the reader thread and the relay task both
\* end, unless the agent is started again.
C24_LoopsEndAfterStop ==
    (stop_reading /\ ~is_running_flag) ~> (LoopsEnded \/ is_running_flag)

\* The agent was stopped while it ran, and the reader and the relay have ended.
C24_Witness ==
    /\ stop_reading
    /\ ~is_running_flag
    /\ \E t \in Threads : rd[t].pc = "done"
    /\ relay.pc = "done"

\* The reader threads that are inside the loop of _output_reader.
ActiveReaders == {t \in Threads : rd[t].pc \in {"loop", "select", "enqueue"}}

\* C25: at most one reader loop is active at any time, when start() is called
\* only while is_running() is false, a stop() directly followed by a start()
\* included.
C25_SingleReader == Cardinality(ActiveReaders) <= 1

\* C26: the reader leaves its loop on account of read errors exactly when the
\* consecutive failed reads number more than the threshold: only a failed
\* read adds to the count, the loop goes on while the count is at most the
\* threshold and ends when it exceeds it, and a read that returned data
\* leaves the count at zero once the pass is over.
C26_ReadErrorThreshold ==
    /\ [][\A t \in Threads :
             rd'[t].error_count > rd[t].error_count =>
                /\ nreads' = nreads
                /\ rd'[t].error_count = rd[t].error_count + 1
                /\ rd'[t].pc = "done" <=> rd'[t].error_count > MAX_READ_ERRORS]_vars
    /\ [][\A t \in Threads :
             (nreads' # nreads /\ rd'[t] # rd[t]) =>
                rd'[t].pc = "enqueue" \/ rd'[t].error_count = 0]_vars
    /\ [][\A t \in Threads :
             (rd[t].pc = "enqueue" /\ rd'[t].pc # "enqueue") =>
                rd'[t].error_count = 0]_vars

\* C27: an exception raised while a chunk is processed never ends the reader
\* loop, however many chunks in a row fail: the step in which the processing
\* of a chunk raised leaves the reader in its loop.
C27_ProcessingNeverEndsReader ==
    [][\A t \in Threads :
          (/\ nreads' = nreads + 1
           /\ rd[t].pc = "select"
           /\ rd'[t].error_count > rd[t].error_count) =>
             rd'[t].pc = "loop"]_vars

\* C28: a send to the transport that fails does not stop the relay loop: the
\* step leaves the relay at the top of its loop with the agent, the queue and
\* the task handle as they were and the block's fingerprint recorded, and the
\* relay task ends in no other way than by finding the agent not running.
C28_SendFailureSwallowed ==
    /\ [][ev'.op = "relay_send_failed" =>
             /\ relay.pc = "send"
             /\ relay'.pc = "loop"
             /\ relay'.recent_messages =
                   RecentAppend(relay.recent_messages, Fingerprint(ev'.text))
             /\ UNCHANGED <<is_running_flag, output_queue, output_monitor_task>>]_vars
    /\ [][(relay.pc # "done" /\ relay'.pc = "done") =>
             relay.pc = "loop" /\ ~is_running_flag]_vars

\* A send has just failed; the relay is back in its loop, the agent runs and
\* other output waits in the queue.
C28_Witness ==
    /\ ev.op = "relay_send_failed"
    /\ relay.pc = "loop"
    /\ is_running_flag
    /\ output_queue # <<>>
    /\ Fingerprint(CleanBlock(Strip(output_queue[1].text))) # Fingerprint(ev.text)

\* C29: when the write inside send_command raises, the call returns the write
\* failure with its cause, nothing reaches the terminal, the running flag,
\* the stop request, the child and the reader threads are as before, and
\* command_lock is free for the next send_command.
C29_WriteFailureLeavesRunning ==
    [][\A c \in DOMAIN sc :
          (sc[c].pc = "write" /\ sc'[c].pc = "idle") =>
             /\ sc'[c].result = WRITE_FAILURE
             /\ sc'[c].wrote = <<>>
             /\ command_lock = c
             /\ command_lock' = "free"
             /\ UNCHANGED <<is_running_flag, stop_reading, process, rd, pty_in,
                            output_queue>>]_vars

\* A write has failed: the call returned the failure, the agent still runs,
\* its reader is in its loop and the lock is free.
C29_Witness ==
    /\ sc["ctl"].op = "send_command"
    /\ sc["ctl"].pc = "idle"
    /\ sc["ctl"].result = WRITE_FAILURE
    /\ is_running_flag
    /\ command_lock = "free"
    /\ \E t \in Threads : rd[t].pc \in {"loop", "select", "enqueue"}

\* C30: when the relay suppresses a block, the block's fingerprint is added
\* to the dedup window, where it then suppresses an exact repeat, if the block
\* is classified repetitive user interface, and the window is left as it was
\* if the block was suppressed for another reason.
C30_RepetitiveRecorded ==
    [][LET output == GetOutputResult(output_queue).msg
           clean_output == CleanBlock(output.content)
       IN (relay.pc = "loop" /\ relay'.pc = "loop" /\ delivered' # delivered) =>
             IF is_repetitive_ui(clean_output)
             THEN /\ relay'.recent_messages =
                        RecentAppend(relay.recent_messages, Fingerprint(clean_output))
                  /\ should_filter(clean_output, relay.recent_messages)
                  /\ \E k \in DOMAIN relay'.recent_messages :
                        relay'.recent_messages[k] = Fingerprint(clean_output)
             ELSE relay'.recent_messages = relay.recent_messages]_vars

\* All chunks were read and relayed or suppressed, and the status line, which
\* the relay never sends, is in the dedup window behind the plain text that
\* was sent.
C30_Witness ==
    /\ relay.pc = "loop"
    /\ relay.recent_messages = << <<"ok">>, <<"|", "/plan or /act">> >>
    /\ nreads = 3
    /\ output_queue = <<>>

\* C31: the dedup window holds no fingerprint more than once, so a window of
\* RECENT_MAXLEN entries remembers RECENT_MAXLEN distinct blocks.
C31_WindowIsSet ==
    \A i, j \in DOMAIN relay.recent_messages :
        i # j => relay.recent_messages[i] # relay.recent_messages[j]

\* C32: waiting_for_input is true exactly when the recorded prompt is not
\* empty: the reader sets the two in one state_lock block and send_command
\* clears the two in one state_lock block.
C32_FlagIffPrompt == waiting_for_input <=> (input_prompt # <<>>)

\* A command was written to the terminal, and after it the reader detected a
\* prompt again: the flag is set and the prompt is recorded.
C32_Witness ==
    /\ pty_in # <<>>
    /\ waiting_for_input
    /\ input_prompt = <<"Continue?">>
    /\ last_prompt_time = MaxReads

\* C33: over every sequence of "/start" and "/stop", at most one relay loop
\* task is active: the bridge never has two _output_monitor tasks that were
\* created and have not ended.
C33_SingleRelayTask == relay.tasks <= 1

\* The agent was started, stopped and started again (two reader threads were
\* launched) while the relay loop of the first start is still the only one.
C33_Witness ==
    /\ \A t \in Threads : rd[t].pc # "unborn"
    /\ is_running_flag
    /\ \A h \in Handlers : hs[h].pc = "idle"
    /\ relay.pc = "loop"
    /\ relay.tasks = 1

\* C34: output order is preserved.  The reader gives fragments increasing ids
\* in the order it enqueues them, and the queue always holds them in that
\* order; a get_output call takes a head piece of the queue and leaves the
\* rest as it was (a pushed-back fragment is at the head again, nothing is
\* reordered, nothing is dropped, also when the queue was full); the message
\* it returns carries exactly the fragments taken, in queue order, all of them
\* enqueued after every fragment an earlier call returned.
C34_OrderPreserved ==
    /\ [](\A i, j \in DOMAIN output_queue :
             i < j => output_queue[i].id < output_queue[j].id)
    /\ [][\A c \in DOMAIN sc :
             IsGetOutputCall(c) =>
                 LET n == Len(output_queue) - Len(output_queue')
                 IN /\ n >= 0
                    /\ output_queue' = SubSeq(output_queue, n + 1, Len(output_queue))
                    /\ sc'[c].out.type = "agent_output" =>
                          /\ sc'[c].out.ids = [k \in 1 .. n |-> output_queue[k].id]
                          /\ \A k \in 1 .. n : \A done \in DOMAIN delivered :
                                delivered[done] > 0 => done < output_queue[k].id]_vars

\* Fragment 1 was dropped by an append to the full queue, so the queue held
\* fragments 2, 3 and 4 (its capacity); the call returned fragment 2 alone and
\* the 4096-character fragment 3 is at the head again, with 4 behind it.
C34_Witness ==
    /\ \E c \in DOMAIN sc : sc[c].op = "get_output" /\ sc[c].out.ids = <<2>>
    /\ delivered[1] = 0
    /\ Len(output_queue) = 2
    /\ output_queue[1] = [id |-> 3, text |-> <<"T4096">>]
    /\ output_queue[2].id = 4
    /\ \A t \in Threads : rd[t].pc # "enqueue"

\* C35: send_command clears the prompt flag and the recorded prompt before it
\* attempts the write: a call returns WriteFailure only from the write it
\* reached through that clearing, and the failing write itself leaves the flag
\* and the prompt alone (it does not restore them); a call that returns
\* NotRunning leaves the flag and the prompt as they were.
C35_ClearedBeforeWrite ==
    [][\A c \in DOMAIN sc :
          /\ (sc[c].pc # "write" /\ sc'[c].pc = "write") =>
                /\ sc[c].pc = "idle"
                /\ ~waiting_for_input'
                /\ input_prompt' = <<>>
          /\ (sc'[c] # sc[c] /\ sc'[c].result = WRITE_FAILURE) =>
                /\ sc[c].pc = "write"
                /\ sc'[c].wrote = <<>>
                /\ UNCHANGED <<waiting_for_input, input_prompt>>
          /\ (sc'[c] # sc[c] /\ sc'[c].result = NOT_RUNNING) =>
                UNCHANGED <<waiting_for_input, input_prompt>>]_vars

\* A prompt was detected and nothing was ever written to the terminal: the
\* call that returned WriteFailure has cleared the flag and the prompt.
C35_Witness ==
    /\ last_prompt_time > 0
    /\ pty_in = <<>>
    /\ \E c \in DOMAIN sc : sc[c].op = "send_command" /\ sc[c].result = WRITE_FAILURE
    /\ ~waiting_for_input
    /\ input_prompt = <<>>

\* C36: the relay loop records a block's fingerprint after every send attempt,
\* delivered or not: a failed send leaves the block's fingerprint as the
\* newest entry of the window, and the relay never holds for sending a block
\* whose fingerprint is in the window, so a block whose delivery failed is
\* suppressed when it recurs within the window.
C36_FailedBlockRecorded ==
    /\ [][ev'.op = "relay_send_failed" =>
             /\ relay.pc = "send"
             /\ ev'.text = relay.out.content
             /\ relay'.recent_messages # <<>>
             /\ relay'.recent_messages[Len(relay'.recent_messages)] =
                   Fingerprint(ev'.text)]_vars
    /\ [](relay.pc = "send" =>
             \A k \in DOMAIN relay.recent_messages :
                 relay.recent_messages[k] # Fingerprint(relay.out.content))

\* With the transport down, the relay took two fragments that are the same
\* block up to whitespace: the send of the first failed and left its
\* fingerprint in the window, the second was suppressed.
C36_Witness ==
    /\ relay.pc = "loop"
    /\ relay.recent_messages = << <<"T2000", " ", "T1000">> >>
    /\ delivered[1] = 1
    /\ delivered[2] = 1
    /\ nreads = 2
    /\ output_queue = <<>>
    /\ ev.op = "none"

=============================================================================
